---- MODULE Spec2Model ----
(***************************************************************************)
(* Location-aware retrieval and streamed generation of the shelter         *)
(* chatbot: RAGEngine.retrieve_context, RAGEngine.generate_response_stream,*)
(* the /chat/stream endpoint and the UI turn handler chat_with_llm_stream; *)
(* further the /chat endpoint with generate_response, the prompt helpers   *)
(* format_history and format_context, get_total_shelters under concurrent  *)
(* turns, the geocoding service and extract_location_from_query; and of   *)
(* the scraper service its trigger_scrape / scrape_and_process interplay   *)
(* and DataProcessor._chunk_text.                                          *)
(*                                                                         *)
(* Conventions.  A Python None / a missing dict key is Absent.  A value    *)
(* that float() rejects is Bad.  Coordinates are whole degrees 0..2 and    *)
(* distances are the haversine value of the source formula in metres,      *)
(* rounded to the nearest metre; float('inf') is Inf.                      *)
(***************************************************************************)
EXTENDS Integers, Sequences, FiniteSets, TLC

VARIABLES
  r_pc,             \* position inside one retrieve_context call
  r_max_docs,       \* its max_docs argument
  r_user_location,  \* its user_location argument
  r_n_results,      \* n_results of the /query request, 0 before it is sent
  r_ids,            \* ids of the /query response, in similarity-rank order
  r_fetched,        \* ids of the documents the by_ids response carries
  r_failure,        \* the collaborator call that failed, or "none"
  r_candidates,     \* context_docs before the radius filter
  r_result,         \* what the call returned
  e_pc,             \* position of one /chat/stream request in the engine
  e_max_docs,       \* max_context_docs of the request
  e_user_location,  \* user_location of the request
  e_context_docs,   \* context_docs of generate_response_stream
  e_backend,        \* texts of the chunks the generation backend produced
  e_outcome,        \* how the backend stream went
  events,           \* what generate_response_stream has yielded
  sse,              \* what event_generator has sent to the client
  u_pc,             \* position of the UI inside one chat turn
  user_location_state,  \* gr.State shared by the handlers of a session
  u_user_loc,       \* the user_loc argument of respond for this turn
  u_user_location,  \* the local user_location of chat_with_llm_stream
  u_extracted,      \* place name extracted from the turn's message
  u_geocode,        \* this turn's /geocode request: none, ok or failed
  u_resolved,       \* what Nominatim answered and what the service returned
  u_read,           \* number of events of sse the UI has processed
  u_assistant,      \* history[-1]["content"]: the turn's assistant message
  g_pc,             \* position of one POST /chat request
  g_language,       \* language of the request
  g_max_docs,       \* max_context_docs of the request
  g_history,        \* conversation_history of the request
  g_context_docs,   \* context_docs of generate_response
  g_result,         \* what generate_response did: returned a pair or raised
  g_status,         \* HTTP status of the /chat response, 0 before it
  t_pc,             \* per turn: position inside get_total_shelters
  t_total_shelters, \* self._total_shelters of the one RAGEngine
  t_store_count,    \* the count the stats endpoint answers with
  t_returned,       \* per turn: what its last get_total_shelters call returned
  t_first,          \* the value of the first successful fetch, Absent before
  t_late_request,   \* a stats request was issued after that fetch
  p_pc,             \* where the code of the two nested generators stands
  p_asked,          \* number of events the consumer has asked for
  p_out,            \* the events event_generator has yielded to it
  p_backend,        \* texts of the chunks pulled from the backend
  p_context_docs,   \* context_docs of this generator
  p_connected,      \* the client is still connected
  h_messages,       \* the messages argument of a format_history call
  h_formatted,      \* the lines it returned
  x_pc,             \* extract_location_from_query: idle or returned
  x_words,          \* the words of the query of the call
  x_query,          \* the query, character by character
  x_location,       \* what the call returned
  c_pc,             \* format_context: idle or returned
  c_documents,      \* the documents argument of the call
  c_formatted,      \* the lines it returned
  d_pc,             \* _calculate_distance: idle, called or returned
  d_a,              \* the first point <<lat, lon>> of the calls
  d_b,              \* the second point <<lat, lon>> of the calls
  d_aa,             \* _calculate_distance(a, a)
  d_ab,             \* _calculate_distance(a, b)
  d_ba,             \* _calculate_distance(b, a)
  s_status,         \* scrape_status.status of the scraper service
  s_initial,        \* the scrape of startup_event: waiting, running or over
  s_scheduled,      \* the cron job's scrape_and_process: idle or running
  s_trigger,        \* per client: its POST /scrape/trigger and its task
  k_pc,             \* _chunk_text: idle, loop or returned
  k_text,           \* the text argument, character by character
  k_chunk_size,     \* self.chunk_size
  k_chunk_overlap,  \* self.chunk_overlap
  k_start,          \* the local start
  k_chunks          \* the local chunks

r_vars ==
  <<r_pc, r_max_docs, r_user_location, r_n_results, r_ids, r_fetched,
    r_failure, r_candidates, r_result>>

e_vars ==
  <<e_pc, e_max_docs, e_user_location, e_context_docs, e_backend, e_outcome,
    events, sse>>

u_vars ==
  <<u_pc, user_location_state, u_user_loc, u_user_location, u_extracted,
    u_geocode, u_resolved, u_read, u_assistant>>

g_vars ==
  <<g_pc, g_language, g_max_docs, g_history, g_context_docs, g_result,
    g_status>>

\* the components the retrieval, the stream and the UI never touch
t_vars ==
  <<t_pc, t_total_shelters, t_store_count, t_returned, t_first,
    t_late_request>>

p_vars == <<p_pc, p_asked, p_out, p_backend, p_context_docs, p_connected>>

h_vars == <<h_messages, h_formatted>>

x_vars == <<x_pc, x_words, x_query, x_location>>

c_vars == <<c_pc, c_documents, c_formatted>>

d_vars == <<d_pc, d_a, d_b, d_aa, d_ab, d_ba>>

s_vars == <<s_status, s_initial, s_scheduled, s_trigger>>

k_vars == <<k_pc, k_text, k_chunk_size, k_chunk_overlap, k_start, k_chunks>>

late_vars == <<d_vars, s_vars, k_vars>>

side_vars == <<g_vars, t_vars, p_vars, h_vars, x_vars, c_vars, late_vars>>

vars == <<r_vars, e_vars, u_vars, side_vars>>

\* what the actions of one component leave alone
r_others == <<e_vars, u_vars, side_vars>>
e_others == <<r_vars, u_vars, side_vars>>
u_others == <<r_vars, e_vars, side_vars>>
ue_others == <<r_vars, side_vars>>
main_vars == <<r_vars, e_vars, u_vars>>
g_others ==
  <<main_vars, t_vars, p_vars, h_vars, x_vars, c_vars, late_vars>>
t_others ==
  <<main_vars, g_vars, p_vars, h_vars, x_vars, c_vars, late_vars>>
p_others ==
  <<main_vars, g_vars, t_vars, h_vars, x_vars, c_vars, late_vars>>
h_others ==
  <<main_vars, g_vars, t_vars, p_vars, x_vars, c_vars, late_vars>>
x_others ==
  <<main_vars, g_vars, t_vars, p_vars, h_vars, c_vars, late_vars>>
c_others ==
  <<main_vars, g_vars, t_vars, p_vars, h_vars, x_vars, late_vars>>
early_vars == <<main_vars, g_vars, t_vars, p_vars, h_vars, x_vars, c_vars>>
d_others == <<early_vars, s_vars, k_vars>>
s_others == <<early_vars, d_vars, k_vars>>
k_others == <<early_vars, d_vars, s_vars>>

\* ------------------------------------------------------------------ bounds
MaxDocsBound == 2      \* largest max_docs a caller asks for
NumDocs == 5           \* number of records in the collection
MaxChunks == 3         \* longest backend chunk stream
MaxChatHistory == 2    \* longest conversation_history of a /chat request
NumTurns == 2          \* turns running concurrently on one RAGEngine
MaxHistory == 7        \* longest history given to format_history
MaxWords == 4          \* longest query, in words
MaxContextDocs == 2    \* longest list given to format_context
NumTriggers == 3       \* clients posting to /scrape/trigger
MaxTextLen == 5        \* longest text given to _chunk_text
MaxChunkSize == 3      \* largest chunk_size
MaxIterations == 4     \* iterations of the chunking loop that are followed

\* ------------------------------------------------------- values and inputs
Absent == -1
Bad == -2
Inf == 999999999

Min(a, b) == IF a <= b THEN a ELSE b

\* Python truthiness of an optional number (None and 0 / 0.0 are falsy).
PyTrue(v) == v # Absent /\ v # 0

\* float(v) succeeds
Numeric(v) == v # Absent /\ v # Bad

Coord == 0..2

\* Metadata (coordinates_lat, coordinates_lng) of the stored records.
CoordOptions ==
  << <<1, 2>>, <<2, 2>>, <<Absent, Absent>>, <<1, 2>>, <<0, 1>>, <<Bad, 1>>,
     <<2, Absent>> >>

Ids == 1..NumDocs

Collection(id) == CoordOptions[((id - 1) % Len(CoordOptions)) + 1]

\* _calculate_distance tabulated on Coord x Coord x Coord x Coord (metres).
HaversineTable ==
<<
  <<
    <<<<0, 111195, 222390>>, <<111195, 157249, 248629>>, <<222390, 248629, 314475>>>>,
    <<<<111195, 0, 111195>>, <<157249, 111195, 157249>>, <<248629, 222390, 248629>>>>,
    <<<<222390, 111195, 0>>, <<248629, 157249, 111195>>, <<314475, 248629, 222390>>>>
  >>,
  <<
    <<<<111195, 157249, 248629>>, <<0, 111178, 222356>>, <<111195, 157225, 248569>>>>,
    <<<<157249, 111195, 157249>>, <<111178, 0, 111178>>, <<157225, 111195, 157225>>>>,
    <<<<248629, 157249, 111195>>, <<222356, 111178, 0>>, <<248569, 157225, 111195>>>>
  >>,
  <<
    <<<<222390, 248629, 314475>>, <<111195, 157225, 248569>>, <<0, 111127, 222254>>>>,
    <<<<248629, 222390, 248629>>, <<157225, 111195, 157225>>, <<111127, 0, 111127>>>>,
    <<<<314475, 248629, 222390>>, <<248569, 157225, 111195>>, <<222254, 111127, 0>>>>
  >>
>>

\* mutant of _calculate_distance: the second point's latitude is not read
_calculate_distance_OneLatitude(lat1, lon1, lat2, lon2) ==
  HaversineTable[lat1 + 1][lon1 + 1][lat1 + 1][lon2 + 1]

\* R * 2 * atan2(sqrt(a), sqrt(1 - a)) of the haversine term a
_calculate_distance(lat1, lon1, lat2, lon2) ==
  HaversineTable[lat1 + 1][lon1 + 1][lat2 + 1][lon2 + 1]

\* The user_location mapping as retrieve_context and generate_response_stream
\* read it: keys lat, lng (retrieve_context), latitude, longitude
\* (generate_response_stream, sent by the UI), max_radius_km.  None and the
\* empty mapping are the record with every key Absent.
RadiusOptions == {Absent, 120000}

UserLocations ==
  {[lat |-> la, lng |-> ln, latitude |-> ll, longitude |-> ll,
    max_radius_km |-> r] :
     la \in {Absent, 0, 1, 2}, ln \in {Absent, 0, 1}, ll \in {Absent, 1},
     r \in RadiusOptions}

NoLocation ==
  [lat |-> Absent, lng |-> Absent, latitude |-> Absent, longitude |-> Absent,
   max_radius_km |-> Absent]

\* bool(user_location): None and {} are falsy, any key makes it truthy.
Truthy(ul) ==
  \/ ul.lat # Absent
  \/ ul.lng # Absent
  \/ ul.latitude # Absent
  \/ ul.longitude # Absent
  \/ ul.max_radius_km # Absent

\* user_location and user_location.get("lat") and user_location.get("lng")
HasLocation(ul) == Truthy(ul) /\ PyTrue(ul.lat) /\ PyTrue(ul.lng)

\* ----------------------------------------------------------- retrieve_context
\* mutant of n_results: the headroom is asked for with or without a location
n_results_AlwaysDouble(max_docs, ul) == max_docs * 2

\* n_results of the /query request
n_results(max_docs, ul) == IF Truthy(ul) THEN max_docs * 2 ELSE max_docs

\* All sequences of distinct ids of length at most n: what the vector store
\* can answer to a query with n_results = n.
RECURSIVE DistinctSeqs(_)
DistinctSeqs(n) ==
  IF n = 0 THEN {<< >>}
  ELSE LET shorter == DistinctSeqs(n - 1)
           longest == {t \in shorter : Len(t) = n - 1}
           fresh == {p \in longest \X Ids :
                       \A k \in 1..Len(p[1]) : p[1][k] # p[2]}
       IN  shorter \cup {Append(p[1], p[2]) : p \in fresh}

\* distances of the /query response: parallel to ids, ascending by rank
QueryDistances(ids) == [i \in 1..Len(ids) |-> i]

\* one entry of context_docs
MakeDoc(id, distance) ==
  [id |-> id, lat |-> Collection(id)[1], lng |-> Collection(id)[2],
   distance |-> distance, geo_distance |-> Absent]

\* mutant of JoinDocs: the records are taken in the order of the by_ids
\* response (here ascending id) instead of the order of ids
RECURSIVE JoinInIdOrder(_, _, _)
JoinInIdOrder(remaining, ids, distances) ==
  IF remaining = {} THEN << >>
  ELSE LET m == CHOOSE x \in remaining : \A y \in remaining : x <= y
           i == CHOOSE k \in 1..Len(ids) : ids[k] = m
       IN  <<MakeDoc(m, IF i <= Len(distances) THEN distances[i] ELSE 0)>>
           \o JoinInIdOrder(remaining \ {m}, ids, distances)

JoinDocs_FetchOrder(ids, distances, fetched) ==
  JoinInIdOrder(fetched \cap {ids[k] : k \in 1..Len(ids)}, ids, distances)

\* mutant of JoinFrom: a record takes the distance at its own position in
\* context_docs, not at the position of its id in ids
RECURSIVE JoinFrom_OwnPosition(_, _, _, _)
JoinFrom_OwnPosition(i, ids, distances, fetched) ==
  IF i > Len(ids) THEN << >>
  ELSE LET rest == JoinFrom_OwnPosition(i + 1, ids, distances, fetched)
           n == Cardinality({k \in 1..i : ids[k] \in fetched})
       IN  IF ids[i] \in fetched
           THEN <<MakeDoc(ids[i],
                          IF n <= Len(distances) THEN distances[n] ELSE 0)>>
                \o rest
           ELSE rest

\* for i, doc_id in enumerate(ids): if doc_id in docs_by_id: append
RECURSIVE JoinFrom(_, _, _, _)
JoinFrom(i, ids, distances, fetched) ==
  IF i > Len(ids) THEN << >>
  ELSE LET rest == JoinFrom(i + 1, ids, distances, fetched)
       IN  IF ids[i] \in fetched
           THEN <<MakeDoc(ids[i],
                          IF i <= Len(distances) THEN distances[i] ELSE 0)>>
                \o rest
           ELSE rest

JoinDocs(ids, distances, fetched) == JoinFrom(1, ids, distances, fetched)

\* mutant of GeoDistance: a record without usable coordinates gets 0
GeoDistance_MissingIsZero(doc, ul) ==
  IF PyTrue(doc.lat) /\ PyTrue(doc.lng)
  THEN IF Numeric(doc.lat) /\ Numeric(doc.lng)
       THEN _calculate_distance(ul.lat, ul.lng, doc.lat, doc.lng)
       ELSE Inf
  ELSE 0

\* geo_distance of one record
GeoDistance(doc, ul) ==
  IF PyTrue(doc.lat) /\ PyTrue(doc.lng)
  THEN IF Numeric(doc.lat) /\ Numeric(doc.lng)
       THEN _calculate_distance(ul.lat, ul.lng, doc.lat, doc.lng)
       ELSE Inf
  ELSE Inf

GeoAnnotate(docs, ul) ==
  [i \in 1..Len(docs) |->
     [docs[i] EXCEPT !.geo_distance = GeoDistance(docs[i], ul)]]

\* doc.get("geo_distance", float('inf'))
GeoKey(doc) == IF doc.geo_distance = Absent THEN Inf ELSE doc.geo_distance

RadiusTest(doc, max_radius_km) == GeoKey(doc) <= max_radius_km

RadiusFilter(docs, max_radius_km) ==
  SelectSeq(docs, LAMBDA d : RadiusTest(d, max_radius_km))

\* mutant of InsertByGeo: an element goes before the elements with an equal
\* key (an unstable sort)
RECURSIVE InsertByGeo_TiesFirst(_, _)
InsertByGeo_TiesFirst(sorted, d) ==
  IF sorted = << >> THEN <<d>>
  ELSE IF GeoKey(sorted[Len(sorted)]) < GeoKey(d)
       THEN Append(sorted, d)
       ELSE Append(InsertByGeo_TiesFirst(SubSeq(sorted, 1, Len(sorted) - 1),
                                         d),
                   sorted[Len(sorted)])

\* list.sort(key=...) is stable: an element goes after every element whose
\* key is not greater.
RECURSIVE InsertByGeo(_, _)
InsertByGeo(sorted, d) ==
  IF sorted = << >> THEN <<d>>
  ELSE IF GeoKey(sorted[Len(sorted)]) <= GeoKey(d)
       THEN Append(sorted, d)
       ELSE Append(InsertByGeo(SubSeq(sorted, 1, Len(sorted) - 1), d),
                   sorted[Len(sorted)])

RECURSIVE SortFrom(_, _, _)
SortFrom(i, docs, acc) ==
  IF i > Len(docs) THEN acc
  ELSE SortFrom(i + 1, docs, InsertByGeo(acc, docs[i]))

SortByGeo(docs) == SortFrom(1, docs, << >>)

\* context_docs[:max_docs]
Truncate(docs, max_docs) == SubSeq(docs, 1, Min(max_docs, Len(docs)))

\* lines 335-378: the geographic branch
GeoRerank(docs, max_docs, ul) ==
  LET annotated == GeoAnnotate(docs, ul)
      filtered == IF ul.max_radius_km # Absent
                  THEN RadiusFilter(annotated, ul.max_radius_km)
                  ELSE annotated
  IN  Truncate(SortByGeo(filtered), max_docs)

\* context_docs as it stands before the radius filter (line 360)
Candidates(ids, fetched, ul) ==
  LET joined == JoinDocs(ids, QueryDistances(ids), fetched)
  IN  IF HasLocation(ul) THEN GeoAnnotate(joined, ul) ELSE joined

\* lines 324-381 after both responses arrived
BuildContext(ids, fetched, max_docs, ul) ==
  LET joined == JoinDocs(ids, QueryDistances(ids), fetched)
  IN  IF HasLocation(ul) THEN GeoRerank(joined, max_docs, ul) ELSE joined

\* what the caller of retrieve_context observes
Returned(docs) == [raised |-> FALSE, docs |-> docs]

\* mutant of OnException: the exception reaches the caller
OnException_Propagates == [raised |-> TRUE, docs |-> << >>]

\* except Exception as e: ... return []
OnException == [raised |-> FALSE, docs |-> << >>]

\* retrieve_context as the engine calls it: env is what the embedding
\* backend and the vector store answered
retrieve_context(max_docs, ul, env) ==
  IF ~env.ok THEN OnException
  ELSE IF env.ids = << >> THEN Returned(<< >>)
  ELSE Returned(BuildContext(env.ids, env.fetched, max_docs, ul))

\* ------------------------------------------- one call of retrieve_context
NoResult == [raised |-> FALSE, docs |-> << >>]

RetrieveInit ==
  /\ r_pc = "idle"
  /\ r_max_docs = 1
  /\ r_user_location = NoLocation
  /\ r_n_results = 0
  /\ r_ids = << >>
  /\ r_fetched = {}
  /\ r_failure = "none"
  /\ r_candidates = << >>
  /\ r_result = NoResult

\* retrieve_context(query, max_docs, user_location=...) is entered
RetrieveCall ==
  /\ r_pc = "idle"
  /\ \E md \in 1..MaxDocsBound, ul \in UserLocations :
       /\ r_max_docs' = md
       /\ r_user_location' = ul
  /\ r_pc' = "embed"
  /\ r_n_results' = 0
  /\ r_ids' = << >>
  /\ r_fetched' = {}
  /\ r_failure' = "none"
  /\ r_candidates' = << >>
  /\ r_result' = NoResult
  /\ UNCHANGED r_others

\* a collaborator call raised: the except clause returns
RetrieveFails(at) ==
  /\ r_pc = at
  /\ r_pc' = "done"
  /\ r_failure' = at
  /\ r_result' = OnException
  /\ UNCHANGED <<r_max_docs, r_user_location, r_n_results, r_ids, r_fetched,
                 r_candidates>>
  /\ UNCHANGED r_others

\* genai.embed_content returned an embedding and POST /query is sent
EmbedOk ==
  /\ r_pc = "embed"
  /\ r_pc' = "query"
  /\ r_n_results' = n_results(r_max_docs, r_user_location)
  /\ UNCHANGED <<r_max_docs, r_user_location, r_ids, r_fetched, r_failure,
                 r_candidates, r_result>>
  /\ UNCHANGED r_others

EmbedFails == RetrieveFails("embed")

\* POST /query answered 2xx with at least one id
QueryOk ==
  /\ r_pc = "query"
  /\ \E ids \in DistinctSeqs(r_n_results) :
       /\ ids # << >>
       /\ r_ids' = ids
  /\ r_pc' = "by_ids"
  /\ UNCHANGED <<r_max_docs, r_user_location, r_n_results, r_fetched,
                 r_failure, r_candidates, r_result>>
  /\ UNCHANGED r_others

\* POST /query answered 2xx with no ids: if not ids: return []
QueryEmpty ==
  /\ r_pc = "query"
  /\ r_pc' = "done"
  /\ r_result' = Returned(<< >>)
  /\ UNCHANGED <<r_max_docs, r_user_location, r_n_results, r_ids, r_fetched,
                 r_failure, r_candidates>>
  /\ UNCHANGED r_others

QueryFails == RetrieveFails("query")

\* POST .../documents/by_ids answered 2xx; the rest of the call is synchronous
ByIdsOk ==
  /\ r_pc = "by_ids"
  /\ \E fetched \in SUBSET {r_ids[i] : i \in 1..Len(r_ids)} :
       /\ r_fetched' = fetched
       /\ r_candidates' = Candidates(r_ids, fetched, r_user_location)
       /\ r_result' = Returned(BuildContext(r_ids, fetched, r_max_docs,
                                            r_user_location))
  /\ r_pc' = "done"
  /\ UNCHANGED <<r_max_docs, r_user_location, r_n_results, r_ids, r_failure>>
  /\ UNCHANGED r_others

ByIdsFails == RetrieveFails("by_ids")

\* the caller has the result and drops the call's locals; the next call may
\* start
RetrieveReturn ==
  /\ r_pc = "done"
  /\ r_pc' = "idle"
  /\ r_max_docs' = 1
  /\ r_user_location' = NoLocation
  /\ r_n_results' = 0
  /\ r_ids' = << >>
  /\ r_fetched' = {}
  /\ r_failure' = "none"
  /\ r_candidates' = << >>
  /\ r_result' = NoResult
  /\ UNCHANGED r_others

RetrieveNext ==
  \/ RetrieveCall
  \/ EmbedOk
  \/ EmbedFails
  \/ QueryOk
  \/ QueryEmpty
  \/ QueryFails
  \/ ByIdsOk
  \/ ByIdsFails
  \/ RetrieveReturn

\* ------------------------------------ one /chat/stream request in the engine
Event(type, count, text, sources) ==
  [type |-> type, count |-> count, text |-> text, sources |-> sources]

\* {"type": "context", "count": len(context_docs), ...}
ContextEvent(docs) == Event("context", Len(docs), "", << >>)

\* {"type": "chunk", "text": chunk.text}
ChunkEvent(text) == Event("chunk", 0, text, << >>)

\* mutant of Source: geo_distance is copied only when it is finite
Source_FiniteOnly(doc) ==
  [id |-> doc.id, coordinates_lat |-> doc.lat, coordinates_lng |-> doc.lng,
   score |-> doc.distance,
   geo_distance |-> IF doc.geo_distance = Inf THEN Absent
                    ELSE doc.geo_distance]

\* one entry of the sources list; id stands for the record's own fields
Source(doc) ==
  [id |-> doc.id, coordinates_lat |-> doc.lat, coordinates_lng |-> doc.lng,
   score |-> doc.distance, geo_distance |-> doc.geo_distance]

\* {"type": "sources", "sources": sources}
SourcesEvent(docs) ==
  Event("sources", 0, "", [k \in 1..Len(docs) |-> Source(docs[k])])

\* {"type": "error", "message": ...}; text names the message
ErrorEvent(message) == Event("error", 0, message, << >>)

\* {'type': 'done'}
DoneEvent == Event("done", 0, "", << >>)

\* texts a backend chunk can carry; "" is a chunk without text
ChunkTexts == {"", "a", "b"}

\* mutant of YieldChunk: the test of chunk.text is missing
YieldChunk_NoTextTest(evs, text) == Append(evs, ChunkEvent(text))

\* if chunk.text: yield {"type": "chunk", ...}
YieldChunk(evs, text) ==
  IF text # "" THEN Append(evs, ChunkEvent(text)) ELSE evs

\* mutant of IterationRaised: the inner handler swallows the exception and
\* the generator goes on to the sources
IterationRaised_Swallowed(evs, docs) == Append(evs, SourcesEvent(docs))

\* except Exception as stream_error: ... raise, then the outer handler
IterationRaised(evs, docs) == Append(evs, ErrorEvent("exception"))

\* if user_location and user_location.get("latitude") and
\* user_location.get("longitude"): the location note is added to the prompt
LocationNote(ul) == Truthy(ul) /\ PyTrue(ul.latitude) /\ PyTrue(ul.longitude)

\* the vector store's ranking for the engine's query
Ranking == [i \in 1..NumDocs |-> NumDocs + 1 - i]

\* answers of the embedding backend and the vector store to one retrieval:
\* a failure, or the first k ids of the ranking with every record fetched
EngineEnvs(n) ==
  {[ok |-> FALSE, ids |-> << >>, fetched |-> {}]} \cup
  {[ok |-> TRUE, ids |-> SubSeq(Ranking, 1, k),
    fetched |-> {Ranking[i] : i \in 1..k}] : k \in 0..Min(n, NumDocs)}

EngineInit ==
  /\ e_pc = "idle"
  /\ e_max_docs = 1
  /\ e_user_location = NoLocation
  /\ e_context_docs = << >>
  /\ e_backend = << >>
  /\ e_outcome = "none"
  /\ events = << >>
  /\ sse = << >>

\* POST /chat/stream from an API caller
ChatStreamRequest ==
  /\ e_pc = "idle"
  /\ \E md \in 1..MaxDocsBound, ul \in UserLocations :
       /\ e_max_docs' = md
       /\ e_user_location' = ul
  /\ e_pc' = "retrieve"
  /\ UNCHANGED <<e_context_docs, e_backend, e_outcome, events, sse>>
  /\ UNCHANGED e_others

\* get_total_shelters, enhance_location_query and retrieve_context return
\* (none of them raises), the context event is yielded and forwarded
EngineRetrieve ==
  /\ e_pc = "retrieve"
  /\ \E env \in EngineEnvs(n_results(e_max_docs, e_user_location)) :
       LET docs == retrieve_context(e_max_docs, e_user_location, env).docs
       IN  /\ e_context_docs' = docs
           /\ events' = Append(events, ContextEvent(docs))
           /\ sse' = Append(sse, ContextEvent(docs))
  /\ e_pc' = "generate"
  /\ UNCHANGED <<e_max_docs, e_user_location, e_backend, e_outcome>>
  /\ UNCHANGED e_others

\* model.generate_content(prompt, stream=True) returned a response
GenerateCreateOk ==
  /\ e_pc = "generate"
  /\ e_pc' = "iterate"
  /\ UNCHANGED <<e_max_docs, e_user_location, e_context_docs, e_backend,
                 e_outcome, events, sse>>
  /\ UNCHANGED e_others

\* generate_content raised: the outer handler yields the error event
GenerateCreateRaises ==
  /\ e_pc = "generate"
  /\ e_outcome' = "raised_create"
  /\ events' = Append(events, ErrorEvent("exception"))
  /\ sse' = Append(sse, ErrorEvent("exception"))
  /\ e_pc' = "finished"
  /\ UNCHANGED <<e_max_docs, e_user_location, e_context_docs, e_backend>>
  /\ UNCHANGED e_others

\* generate_content raised StopIteration: except StopIteration yields the
\* "did not generate any content" error and returns
GenerateCreateStops ==
  /\ e_pc = "generate"
  /\ e_outcome' = "empty_create"
  /\ events' = Append(events, ErrorEvent("empty"))
  /\ sse' = Append(sse, ErrorEvent("empty"))
  /\ e_pc' = "finished"
  /\ UNCHANGED <<e_max_docs, e_user_location, e_context_docs, e_backend>>
  /\ UNCHANGED e_others

\* for chunk in response: the backend produced one more chunk
BackendChunk ==
  /\ e_pc = "iterate"
  /\ Len(e_backend) < MaxChunks
  /\ \E text \in ChunkTexts :
       /\ e_backend' = Append(e_backend, text)
       /\ events' = YieldChunk(events, text)
       /\ sse' = YieldChunk(sse, text)
  /\ UNCHANGED <<e_pc, e_max_docs, e_user_location, e_context_docs,
                 e_outcome>>
  /\ UNCHANGED e_others

\* the iteration raised (network failure, a chunk whose text cannot be read)
BackendRaises ==
  /\ e_pc = "iterate"
  /\ e_outcome' = "raised_iter"
  /\ events' = IterationRaised(events, e_context_docs)
  /\ sse' = IterationRaised(sse, e_context_docs)
  /\ e_pc' = "finished"
  /\ UNCHANGED <<e_max_docs, e_user_location, e_context_docs, e_backend>>
  /\ UNCHANGED e_others

\* the backend stream ended: the sources event is yielded
BackendEnds ==
  /\ e_pc = "iterate"
  /\ e_outcome' = "ended"
  /\ events' = Append(events, SourcesEvent(e_context_docs))
  /\ sse' = Append(sse, SourcesEvent(e_context_docs))
  /\ e_pc' = "finished"
  /\ UNCHANGED <<e_max_docs, e_user_location, e_context_docs, e_backend>>
  /\ UNCHANGED e_others

\* generate_response_stream is exhausted: event_generator sends done
StreamDone ==
  /\ e_pc = "finished"
  /\ sse' = Append(sse, DoneEvent)
  /\ e_pc' = "closed"
  /\ UNCHANGED <<e_max_docs, e_user_location, e_context_docs, e_backend,
                 e_outcome, events>>
  /\ UNCHANGED e_others

\* the response is complete; the engine is ready for the next request
StreamClose ==
  /\ e_pc = "closed"
  /\ e_pc' = "idle"
  /\ e_max_docs' = 1
  /\ e_user_location' = NoLocation
  /\ e_context_docs' = << >>
  /\ e_backend' = << >>
  /\ e_outcome' = "none"
  /\ events' = << >>
  /\ sse' = << >>
  /\ UNCHANGED e_others

StreamNext ==
  \/ ChatStreamRequest
  \/ EngineRetrieve
  \/ GenerateCreateOk
  \/ GenerateCreateRaises
  \/ GenerateCreateStops
  \/ BackendChunk
  \/ BackendRaises
  \/ BackendEnds
  \/ StreamDone
  \/ StreamClose

\* ------------------------------------------------- one session of the UI
\* the location mapping the UI keeps: keys lat, lng, name, max_radius_km;
\* None is the record with every key Absent
NoPlace == "none"

Places == {"A", "B"}

NoUiLocation ==
  [lat |-> Absent, lng |-> Absent, name |-> NoPlace, max_radius_km |-> Absent]

\* max_radius_km of a geocoded location: 5.0 km
DefaultRadius == 5000

\* coordinates the /geocode endpoint can answer with
GeocodeLats == {0, 1, 2}
GeocodeLngs == {1}

\* user_location = {"lat": ..., "lng": ..., "name": extracted_location,
\*                  "max_radius_km": 5.0}
GeocodedLocation(lat, lng, name) ==
  [lat |-> lat, lng |-> lng, name |-> name, max_radius_km |-> DefaultRadius]

\* what the search request to Nominatim can end in: a transport failure, an
\* error status, an empty list, a first result without lat, or a first result
NominatimAnswers ==
  {[kind |-> k, lat |-> Absent, lng |-> Absent] :
     k \in {"transport", "http_error", "empty", "malformed"}}
  \cup {[kind |-> "result", lat |-> lat, lng |-> lng] :
           lat \in GeocodeLats, lng \in GeocodeLngs}

\* what geocode_location gives its caller; None is found = FALSE
Geocoded(found, raised, lat, lng) ==
  [found |-> found, raised |-> raised, lat |-> lat, lng |-> lng]

NoGeocode == Geocoded(FALSE, FALSE, Absent, Absent)

\* mutant of _geocode_nominatim: an empty result list is answered with the
\* centre of the viewbox
_geocode_nominatim_Default(answer) ==
  CASE answer.kind = "result" -> Geocoded(TRUE, FALSE, answer.lat, answer.lng)
    [] answer.kind = "empty" -> Geocoded(TRUE, FALSE, 1, 1)
    [] OTHER -> NoGeocode

\* GeocodingService._geocode_nominatim: every exception and the empty list
\* give None
_geocode_nominatim(answer) ==
  IF answer.kind = "result"
  THEN Geocoded(TRUE, FALSE, answer.lat, answer.lng)
  ELSE NoGeocode

\* POST /geocode: success with the coordinates, or success = false
geocode_location(result) ==
  IF ~result.raised /\ result.found
  THEN [success |-> TRUE, lat |-> result.lat, lng |-> result.lng]
  ELSE [success |-> FALSE, lat |-> Absent, lng |-> Absent]

\* the geocoding of one turn: Nominatim's answer and the service's result
Resolved(kind, result) == [answer |-> kind, result |-> result]

NotResolved == Resolved("none", NoGeocode)

\* mutant of MustGeocode: every extracted place is geocoded
MustGeocode_Always(extracted, ul) == extracted # NoPlace

\* if extracted_location and not (user_location and user_location.get("lat"))
MustGeocode(extracted, ul) == extracted # NoPlace /\ ~PyTrue(ul.lat)

\* payload["user_location"] of the /chat/stream request
PayloadLocation(ul) ==
  IF PyTrue(ul.lat) /\ PyTrue(ul.lng)
  THEN [lat |-> Absent, lng |-> Absent,
        latitude |-> ul.lat, longitude |-> ul.lng,
        max_radius_km |-> IF PyTrue(ul.max_radius_km)
                          THEN ul.max_radius_km ELSE Absent]
  ELSE NoLocation

\* a displayed text is the sequence of the pieces it was built from; ""
\* is the empty sequence
NoText == << >>

\* mutant of Concat: the chunk text is assigned, not appended
Concat_Assign(content, text) == IF text = "" THEN NoText ELSE <<text>>

\* assistant_text += chunk_data.get("text", "")
Concat(content, text) == IF text = "" THEN content ELSE Append(content, text)

\* history[-1]["content"] = error_msg: the message replaces the content
ErrorText(message) == <<message>>

UiInit ==
  /\ u_pc = "idle"
  /\ user_location_state = NoUiLocation
  /\ u_user_loc = NoUiLocation
  /\ u_user_location = NoUiLocation
  /\ u_extracted = NoPlace
  /\ u_geocode = "none"
  /\ u_resolved = NotResolved
  /\ u_read = 0
  /\ u_assistant = NoText

\* respond -> chat_with_llm_stream with a non-blank message, up to the first
\* await
UiSubmit ==
  /\ u_pc = "idle"
  /\ e_pc = "idle"
  /\ \E extracted \in Places \cup {NoPlace} :
       /\ u_extracted' = extracted
       /\ u_pc' = IF MustGeocode(extracted, user_location_state)
                  THEN "geocode" ELSE "post"
  /\ u_user_loc' = user_location_state
  /\ u_user_location' = user_location_state
  /\ u_geocode' = "none"
  /\ u_resolved' = NotResolved
  /\ u_read' = 0
  /\ u_assistant' = NoText
  /\ UNCHANGED user_location_state
  /\ UNCHANGED u_others

\* POST /geocode answered success: the local user_location is replaced
UiGeocodeOk ==
  /\ u_pc = "geocode"
  /\ \E answer \in NominatimAnswers :
       LET result == _geocode_nominatim(answer)
           response == geocode_location(result)
       IN  /\ response.success
           /\ u_user_location' =
                GeocodedLocation(response.lat, response.lng, u_extracted)
           /\ u_resolved' = Resolved(answer.kind, result)
  /\ u_geocode' = "ok"
  /\ u_pc' = "post"
  /\ UNCHANGED <<user_location_state, u_user_loc, u_extracted, u_read,
                 u_assistant>>
  /\ UNCHANGED u_others

\* POST /geocode failed or answered success: false
UiGeocodeFails ==
  /\ u_pc = "geocode"
  /\ \/ \E answer \in NominatimAnswers :
          LET result == _geocode_nominatim(answer)
          IN  /\ ~geocode_location(result).success
              /\ u_resolved' = Resolved(answer.kind, result)
     \/ u_resolved' = Resolved("unreachable", NoGeocode)
  /\ u_geocode' = "failed"
  /\ u_pc' = "post"
  /\ UNCHANGED <<user_location_state, u_user_loc, u_user_location,
                 u_extracted, u_read, u_assistant>>
  /\ UNCHANGED u_others

\* POST /chat/stream carries the payload to the engine
UiPost ==
  /\ u_pc = "post"
  /\ e_pc = "idle"
  /\ \E md \in 1..MaxDocsBound : e_max_docs' = md
  /\ e_user_location' = PayloadLocation(u_user_location)
  /\ e_pc' = "retrieve"
  /\ u_pc' = "stream"
  /\ UNCHANGED <<e_context_docs, e_backend, e_outcome, events, sse>>
  /\ UNCHANGED <<user_location_state, u_user_loc, u_user_location,
                 u_extracted, u_geocode, u_resolved, u_read, u_assistant>>
  /\ UNCHANGED ue_others

\* the request failed (httpx.HTTPError): the error text is yielded together
\* with user_location and the turn is over
UiPostFails ==
  /\ u_pc = "post"
  /\ user_location_state' = u_user_location
  /\ u_assistant' = ErrorText("error_message")
  /\ u_pc' = "idle"
  /\ UNCHANGED <<u_user_loc, u_user_location, u_extracted, u_geocode,
                 u_resolved, u_read>>
  /\ UNCHANGED u_others

\* one line of the SSE stream is processed; chunk, sources and error yield
\* an update whose fourth output, user_location, goes to the session state;
\* error returns
UiReceive ==
  /\ u_pc = "stream"
  /\ u_read < Len(sse)
  /\ u_read' = u_read + 1
  /\ LET type == sse[u_read + 1].type
         text == sse[u_read + 1].text
     IN  /\ user_location_state' =
              IF type \in {"chunk", "sources", "error"}
              THEN u_user_location ELSE user_location_state
         /\ u_assistant' =
              CASE type = "chunk" -> Concat(u_assistant, text)
                [] type = "error" -> ErrorText(text)
                [] OTHER -> u_assistant
         /\ u_pc' = IF type = "error" THEN "returned" ELSE "stream"
  /\ UNCHANGED <<u_user_loc, u_user_location, u_extracted, u_geocode,
                 u_resolved>>
  /\ UNCHANGED u_others

\* raise_for_status or aiter_lines raised before the stream was read to its
\* end (error status, connection lost, read timeout): the except clause
\* writes the error text, yields it with user_location, and the handler ends
UiStreamFails ==
  /\ u_pc = "stream"
  /\ ~(e_pc = "closed" /\ u_read = Len(sse))
  /\ user_location_state' = u_user_location
  /\ u_assistant' = ErrorText("error_message")
  /\ u_pc' = "returned"
  /\ UNCHANGED <<u_user_loc, u_user_location, u_extracted, u_geocode,
                 u_resolved, u_read>>
  /\ UNCHANGED u_others

\* the stream is exhausted or the handler returned, and the response is
\* closed: the turn is over
UiTurnOver ==
  /\ \/ u_pc = "stream" /\ u_read = Len(sse)
     \/ u_pc = "returned"
  /\ e_pc = "closed"
  /\ u_pc' = "idle"
  /\ e_pc' = "idle"
  /\ e_max_docs' = 1
  /\ e_user_location' = NoLocation
  /\ e_context_docs' = << >>
  /\ e_backend' = << >>
  /\ e_outcome' = "none"
  /\ events' = << >>
  /\ sse' = << >>
  /\ UNCHANGED <<user_location_state, u_user_loc, u_user_location,
                 u_extracted, u_geocode, u_resolved, u_read, u_assistant>>
  /\ UNCHANGED ue_others

\* clear_btn.click: the session state is reset to None
UiClear ==
  /\ u_pc = "idle"
  /\ user_location_state' = NoUiLocation
  /\ u_assistant' = NoText
  /\ UNCHANGED <<u_pc, u_user_loc, u_user_location, u_extracted, u_geocode,
                 u_resolved, u_read>>
  /\ UNCHANGED u_others

UiNext ==
  \/ UiSubmit
  \/ UiGeocodeOk
  \/ UiGeocodeFails
  \/ UiPost
  \/ UiPostFails
  \/ UiReceive
  \/ UiStreamFails
  \/ UiTurnOver
  \/ UiClear
  \/ EngineRetrieve
  \/ GenerateCreateOk
  \/ GenerateCreateRaises
  \/ GenerateCreateStops
  \/ BackendChunk
  \/ BackendRaises
  \/ BackendEnds
  \/ StreamDone

\* ------------------------------------------------- prompt assembly (pure)
\* a formatted text is the sequence of its lines; a line is a label and the
\* value interpolated after it
Line(label, value) == [label |-> label, value |-> value]

\* a line of fixed text
TextLine(text) == Line(text, Absent)

\* messages[-6:] takes the last 6 messages
HistoryWindow == 6

\* roles a message can carry; "system" stands for every other role
Roles == {"user", "assistant", "system"}

\* conversation histories of at most n messages; the content of a message is
\* its position in the conversation
Histories(n) ==
  UNION {{[i \in 1..k |-> [role |-> f[i], content |-> i]] :
             f \in [1..k -> Roles]} : k \in 0..n}

\* mutant of LastMessages: the first n messages, messages[:n]
LastMessages_FromStart(messages, n) ==
  SubSeq(messages, 1, Min(n, Len(messages)))

\* messages[-n:]
LastMessages(messages, n) ==
  SubSeq(messages, IF Len(messages) > n THEN Len(messages) - n + 1 ELSE 1,
         Len(messages))

\* the body of the loop of format_history for one message
RenderMessage(msg) ==
  CASE msg.role = "user" -> <<Line("Anvandare", msg.content)>>
    [] msg.role = "assistant" -> <<Line("Assistent", msg.content)>>
    [] OTHER -> << >>

RECURSIVE RenderMessages(_)
RenderMessages(messages) ==
  IF messages = << >> THEN << >>
  ELSE RenderMessage(Head(messages)) \o RenderMessages(Tail(messages))

format_history(messages) ==
  IF messages = << >> THEN <<TextLine("Ingen tidigare konversation.")>>
  ELSE RenderMessages(LastMessages(messages, HistoryWindow))

\* mutant of FieldLine: the line is emitted whatever the field holds
FieldLine_NoTest(label, value) == <<Line(label, value)>>

\* if metadata.get(field): context_parts.append(f"{label}: {value}")
FieldLine(label, value) ==
  IF PyTrue(value) THEN <<Line(label, value)>> ELSE << >>

\* the lines format_context appends for document number i
DocumentLines(doc, i) ==
  <<Line("Kalla", i), Line("document", doc.document)>>
  \o FieldLine("Namn", doc.name)
  \o FieldLine("Adress", doc.address)
  \o FieldLine("Kapacitet", doc.capacity)
  \o FieldLine("Stadsdel", doc.district)
  \o <<TextLine("")>>

RECURSIVE ContextFrom(_, _)
ContextFrom(documents, i) ==
  IF i > Len(documents) THEN << >>
  ELSE DocumentLines(documents[i], i) \o ContextFrom(documents, i + 1)

format_context(documents) ==
  IF documents = << >>
  THEN <<TextLine("Ingen relevant information hittades i databasen.")>>
  ELSE ContextFrom(documents, 1)

\* ------------------------------------------------ one POST /chat request
\* the placeholders of the two templates of self.system_prompts
system_prompts ==
  [sv |-> {"total_shelters", "context_count", "context", "history",
           "question"},
   en |-> {"total_shelters", "context_count", "context", "history",
           "question"}]

\* self.system_prompts.get(language, self.system_prompts["sv"])
SelectPrompt(language) ==
  IF language \in DOMAIN system_prompts THEN system_prompts[language]
  ELSE system_prompts["sv"]

\* template.format(**args): KeyError when a placeholder has no argument
str_format(template, args) ==
  IF template \subseteq DOMAIN args
  THEN [raised |-> FALSE, text |-> [ph \in template |-> args[ph]]]
  ELSE [raised |-> TRUE, text |-> << >>]

\* name, address, capacity and district of the stored records
FieldOptions ==
  << <<1, 1, 1, 1>>, <<1, Absent, 0, 1>>, <<Absent, 1, Absent, Absent>> >>

\* a retrieved record as format_context reads it
ContextDocument(doc) ==
  LET fields == FieldOptions[((doc.id - 1) % Len(FieldOptions)) + 1]
  IN  [document |-> doc.id, name |-> fields[1], address |-> fields[2],
       capacity |-> fields[3], district |-> fields[4]]

\* the keyword arguments generate_response passes to format
PromptArguments(docs, messages) ==
  [context |-> format_context([k \in 1..Len(docs) |->
                                 ContextDocument(docs[k])]),
   history |-> format_history(messages),
   question |-> "query"]

Languages == {"sv", "en", "fi"}

\* error_message.get(language, error_message["sv"]) with str(e)
Apology(language, error) ==
  <<IF language = "en" THEN "Sorry" ELSE "Ursakta", error>>

\* what a call of generate_response gives its caller
Outcome(raised, response, sources) ==
  [raised |-> raised, response |-> response, sources |-> sources]

NoOutcome == Outcome(FALSE, NoText, << >>)

\* except Exception as e: return error_message..., []
HandledError(language, error) == Outcome(FALSE, Apology(language, error), << >>)

\* generate_response after the retrieval: the prompt is formatted, the
\* backend is asked (answer is its text, or "raises"), the pair is returned
generate_response(language, docs, messages, answer) ==
  LET prompt == str_format(SelectPrompt(language),
                           PromptArguments(docs, messages))
  IN  IF prompt.raised THEN HandledError(language, "KeyError")
      ELSE IF answer = "raises" THEN HandledError(language, "backend")
      ELSE Outcome(FALSE, <<answer>>,
                   [k \in 1..Len(docs) |-> Source(docs[k])])

ChatInit ==
  /\ g_pc = "idle"
  /\ g_language = "sv"
  /\ g_max_docs = 1
  /\ g_history = << >>
  /\ g_context_docs = << >>
  /\ g_result = NoOutcome
  /\ g_status = 0

\* POST /chat arrives
ChatCall ==
  /\ g_pc = "idle"
  /\ \E language \in Languages, md \in 1..MaxDocsBound,
        messages \in Histories(MaxChatHistory) :
       /\ g_language' = language
       /\ g_max_docs' = md
       /\ g_history' = messages
  /\ g_pc' = "retrieve"
  /\ UNCHANGED <<g_context_docs, g_result, g_status>>
  /\ UNCHANGED g_others

\* context_docs = await self.retrieve_context(query, max_context_docs)
ChatRetrieve ==
  /\ g_pc = "retrieve"
  /\ \E env \in EngineEnvs(n_results(g_max_docs, NoLocation)) :
       g_context_docs' = retrieve_context(g_max_docs, NoLocation, env).docs
  /\ g_pc' = "generate"
  /\ UNCHANGED <<g_language, g_max_docs, g_history, g_result, g_status>>
  /\ UNCHANGED g_others

\* the rest of generate_response, up to its return
ChatGenerate ==
  /\ g_pc = "generate"
  /\ \E answer \in {"answer", "raises"} :
       g_result' = generate_response(g_language, g_context_docs, g_history,
                                     answer)
  /\ g_pc' = "respond"
  /\ UNCHANGED <<g_language, g_max_docs, g_history, g_context_docs, g_status>>
  /\ UNCHANGED g_others

\* the endpoint: ChatResponse, or HTTPException 500 when the call raised
ChatRespond ==
  /\ g_pc = "respond"
  /\ g_status' = IF g_result.raised THEN 500 ELSE 200
  /\ g_pc' = "done"
  /\ UNCHANGED <<g_language, g_max_docs, g_history, g_context_docs, g_result>>
  /\ UNCHANGED g_others

\* the engine is ready for the next request
ChatReset ==
  /\ g_pc = "done"
  /\ g_pc' = "idle"
  /\ g_language' = "sv"
  /\ g_max_docs' = 1
  /\ g_history' = << >>
  /\ g_context_docs' = << >>
  /\ g_result' = NoOutcome
  /\ g_status' = 0
  /\ UNCHANGED g_others

ChatNext ==
  \/ ChatCall
  \/ ChatRetrieve
  \/ ChatGenerate
  \/ ChatRespond
  \/ ChatReset

\* ------------------------------- concurrent calls of get_total_shelters
\* the turns that run concurrently on the one engine
Turns == 1..NumTurns

\* counts the collection can hold (it changes on re-ingestion)
StoreCounts == {0, 1, 2}

\* what a call returned, and whether it returned after the first successful
\* fetch had completed
Return(value, after_first) == [value |-> value, after_first |-> after_first]

TotalsInit ==
  /\ t_pc = [c \in Turns |-> "idle"]
  /\ t_total_shelters = Absent
  /\ t_store_count = 1
  /\ t_returned = [c \in Turns |-> Return(Absent, FALSE)]
  /\ t_first = Absent
  /\ t_late_request = FALSE

\* if self._total_shelters is not None
CacheHit(cached) == cached # Absent

\* a turn calls get_total_shelters: the cached value is returned, or the
\* call goes on to open its client
TotalsCall(c) ==
  /\ t_pc[c] = "idle"
  /\ IF CacheHit(t_total_shelters)
     THEN /\ t_pc' = [t_pc EXCEPT ![c] = "returned"]
          /\ t_returned' = [t_returned EXCEPT
                              ![c] = Return(t_total_shelters,
                                            t_first # Absent)]
     ELSE /\ t_pc' = [t_pc EXCEPT ![c] = "connecting"]
          /\ UNCHANGED t_returned
  /\ UNCHANGED <<t_total_shelters, t_store_count, t_first, t_late_request>>
  /\ UNCHANGED t_others

\* await client.get(...): the connection is up and the request is written
TotalsSend(c) ==
  /\ t_pc[c] = "connecting"
  /\ t_pc' = [t_pc EXCEPT ![c] = "waiting"]
  /\ t_late_request' = (t_late_request \/ t_first # Absent)
  /\ UNCHANGED <<t_total_shelters, t_store_count, t_returned, t_first>>
  /\ UNCHANGED t_others

\* the response arrived: the count is stored and returned
TotalsReceiveOk(c) ==
  /\ t_pc[c] = "waiting"
  /\ t_total_shelters' = t_store_count
  /\ t_first' = IF t_first = Absent THEN t_store_count ELSE t_first
  /\ t_returned' = [t_returned EXCEPT ![c] = Return(t_store_count, TRUE)]
  /\ t_pc' = [t_pc EXCEPT ![c] = "returned"]
  /\ UNCHANGED <<t_store_count, t_late_request>>
  /\ UNCHANGED t_others

\* mutant of CacheAfterFailure: the 0 that is returned is stored as well
CacheAfterFailure_StoresZero(cached) == 0

\* except Exception: logger.error(...); return 0 -- no assignment
CacheAfterFailure(cached) == cached

\* the request failed (connection, timeout, error status): except returns 0
TotalsReceiveFails(c) ==
  /\ t_pc[c] \in {"connecting", "waiting"}
  /\ t_total_shelters' = CacheAfterFailure(t_total_shelters)
  /\ t_returned' = [t_returned EXCEPT ![c] = Return(0, t_first # Absent)]
  /\ t_pc' = [t_pc EXCEPT ![c] = "returned"]
  /\ UNCHANGED <<t_store_count, t_first, t_late_request>>
  /\ UNCHANGED t_others

\* the turn is over; the next turn of this client may call again
TotalsDone(c) ==
  /\ t_pc[c] = "returned"
  /\ t_pc' = [t_pc EXCEPT ![c] = "idle"]
  /\ UNCHANGED <<t_total_shelters, t_store_count, t_returned, t_first,
                 t_late_request>>
  /\ UNCHANGED t_others

\* the collection is re-ingested: the stats endpoint answers another count
StoreChanges ==
  /\ \E n \in StoreCounts \ {t_store_count} : t_store_count' = n
  /\ UNCHANGED <<t_pc, t_total_shelters, t_returned, t_first, t_late_request>>
  /\ UNCHANGED t_others

TotalsNext ==
  \/ \E c \in Turns : TotalsCall(c)
  \/ \E c \in Turns : TotalsSend(c)
  \/ \E c \in Turns : TotalsReceiveOk(c)
  \/ \E c \in Turns : TotalsReceiveFails(c)
  \/ \E c \in Turns : TotalsDone(c)
  \/ StoreChanges

\* --------------------- one /chat/stream response pulled by its consumer
\* event_generator and generate_response_stream are async generators: their
\* code runs only between a request for the next event and the next yield
PullInit ==
  /\ p_pc = "retrieve"
  /\ p_asked = 0
  /\ p_out = << >>
  /\ p_backend = << >>
  /\ p_context_docs = << >>
  /\ p_connected = TRUE

\* mutant of MayRun: the generator runs ahead of its consumer
MayRun_Eager(asked, yielded) == TRUE

\* the generator is between a request for the next event and its yield
MayRun(asked, yielded) == yielded < asked

\* StreamingResponse has sent the previous event and asks for the next one
PullAsk ==
  /\ p_connected
  /\ p_pc # "end"
  /\ p_asked = Len(p_out)
  /\ p_asked' = p_asked + 1
  /\ UNCHANGED <<p_pc, p_out, p_backend, p_context_docs, p_connected>>
  /\ UNCHANGED p_others

\* the client goes away; nothing asks for an event any more
PullDisconnect ==
  /\ p_connected
  /\ p_connected' = FALSE
  /\ UNCHANGED <<p_pc, p_asked, p_out, p_backend, p_context_docs>>
  /\ UNCHANGED p_others

\* the code up to the yield of the context event
PullRetrieve ==
  /\ p_pc = "retrieve"
  /\ MayRun(p_asked, Len(p_out))
  /\ \E env \in EngineEnvs(n_results(1, NoLocation)) :
       LET docs == retrieve_context(1, NoLocation, env).docs
       IN  /\ p_context_docs' = docs
           /\ p_out' = Append(p_out, ContextEvent(docs))
  /\ p_pc' = "generate"
  /\ UNCHANGED <<p_asked, p_backend, p_connected>>
  /\ UNCHANGED p_others

\* generate_content(prompt, stream=True) returns, or raises and the error
\* event is yielded
PullCreate ==
  /\ p_pc = "generate"
  /\ MayRun(p_asked, Len(p_out))
  /\ \/ /\ p_pc' = "iterate"
        /\ UNCHANGED p_out
     \/ /\ p_pc' = "done"
        /\ \E message \in {"exception", "empty"} :
             p_out' = Append(p_out, ErrorEvent(message))
  /\ UNCHANGED <<p_asked, p_backend, p_context_docs, p_connected>>
  /\ UNCHANGED p_others

\* for chunk in response: one chunk is pulled from the backend and yielded
\* when it has text
PullChunk ==
  /\ p_pc = "iterate"
  /\ MayRun(p_asked, Len(p_out))
  /\ Len(p_backend) < MaxChunks
  /\ \E text \in ChunkTexts :
       /\ p_backend' = Append(p_backend, text)
       /\ p_out' = YieldChunk(p_out, text)
  /\ UNCHANGED <<p_pc, p_asked, p_context_docs, p_connected>>
  /\ UNCHANGED p_others

\* the backend stream ends (sources are yielded) or raises (error event)
PullFinish ==
  /\ p_pc = "iterate"
  /\ MayRun(p_asked, Len(p_out))
  /\ \/ p_out' = Append(p_out, SourcesEvent(p_context_docs))
     \/ p_out' = IterationRaised(p_out, p_context_docs)
  /\ p_pc' = "done"
  /\ UNCHANGED <<p_asked, p_backend, p_context_docs, p_connected>>
  /\ UNCHANGED p_others

\* generate_response_stream is exhausted: event_generator yields done
PullDone ==
  /\ p_pc = "done"
  /\ MayRun(p_asked, Len(p_out))
  /\ p_out' = Append(p_out, DoneEvent)
  /\ p_pc' = "end"
  /\ UNCHANGED <<p_asked, p_backend, p_context_docs, p_connected>>
  /\ UNCHANGED p_others

PullNext ==
  \/ PullAsk
  \/ PullDisconnect
  \/ PullRetrieve
  \/ PullCreate
  \/ PullChunk
  \/ PullFinish
  \/ PullDone

\* ------------------------------------------------ calls of format_history
HistoryInit ==
  /\ h_messages = << >>
  /\ h_formatted = NoText

\* format_history is called with a conversation and returns
HistoryCall ==
  /\ h_messages = << >>
  /\ h_formatted = NoText
  /\ \E messages \in Histories(MaxHistory) :
       /\ h_messages' = messages
       /\ h_formatted' = format_history(messages)
  /\ UNCHANGED h_others

\* the caller has used the result; the next call can come
HistoryReturn ==
  /\ ~(h_messages = << >> /\ h_formatted = NoText)
  /\ h_messages' = << >>
  /\ h_formatted' = NoText
  /\ UNCHANGED h_others

HistoryNext ==
  \/ HistoryCall
  \/ HistoryReturn

\* ------------------------------------------- extract_location_from_query
\* a text is the sequence of its characters; the Swedish letters are written
\* aa, ae, oe and AA, AE, OE
AsciiUpper ==
  {"A", "B", "C", "D", "E", "F", "G", "H", "I", "J", "K", "L", "M",
   "N", "O", "P", "Q", "R", "S", "T", "U", "V", "W", "X", "Y", "Z"}

AsciiLower ==
  {"a", "b", "c", "d", "e", "f", "g", "h", "i", "j", "k", "l", "m",
   "n", "o", "p", "q", "r", "s", "t", "u", "v", "w", "x", "y", "z"}

SwedishUpper == AsciiUpper \cup {"AA", "AE", "OE"}

SwedishLower == AsciiLower \cup {"aa", "ae", "oe"}

Whitespace == {" "}

\* keyword\s+([upper][lower]+(?:\s+[upper][lower]+)*)
Pattern(keyword, upper, lower) ==
  [keyword |-> keyword, upper |-> upper, lower |-> lower]

patterns ==
  << Pattern(<<"f", "r", "aa", "n">>, SwedishUpper, SwedishLower),
     Pattern(<<"f", "r", "o", "m">>, AsciiUpper, AsciiLower),
     Pattern(<<"v", "i", "d">>, SwedishUpper, SwedishLower),
     Pattern(<<"n", "ae", "r", "a">>, SwedishUpper, SwedishLower),
     Pattern(<<"n", "e", "a", "r">>, AsciiUpper, AsciiLower),
     Pattern(<<"i">>, SwedishUpper, SwedishLower),
     Pattern(<<"i", "n">>, AsciiUpper, AsciiLower),
     Pattern(<<"a", "t">>, AsciiUpper, AsciiLower) >>

\* the literal stands at position p of the text
LiteralAt(text, p, literal) ==
  /\ p + Len(literal) - 1 <= Len(text)
  /\ \A k \in 1..Len(literal) : text[p + k - 1] = literal[k]

\* the first position from p on whose character is not in the class
RECURSIVE SkipClass(_, _, _)
SkipClass(text, p, class) ==
  IF p <= Len(text) /\ text[p] \in class
  THEN SkipClass(text, p + 1, class) ELSE p

\* [upper][lower]+ at position p: the position of its last character, 0
\* when it does not match there
WordEnd(text, p, pattern) ==
  IF /\ p + 1 <= Len(text)
     /\ text[p] \in pattern.upper
     /\ text[p + 1] \in pattern.lower
  THEN SkipClass(text, p + 1, pattern.lower) - 1
  ELSE 0

\* (?:\s+[upper][lower]+)* after a word that ends at position e, greedy
RECURSIVE MoreWords(_, _, _)
MoreWords(text, e, pattern) ==
  LET s == SkipClass(text, e + 1, Whitespace)
      next == IF s > e + 1 THEN WordEnd(text, s, pattern) ELSE 0
  IN  IF next = 0 THEN e ELSE MoreWords(text, next, pattern)

\* span of group 1; to = 0 stands for no match
Span(from, to) == [from |-> from, to |-> to]

NoMatch == Span(0, 0)

\* the pattern matched with its keyword at position p
MatchAt(text, p, pattern) ==
  LET after == p + Len(pattern.keyword)
      s == SkipClass(text, after, Whitespace)
      e == IF LiteralAt(text, p, pattern.keyword) /\ s > after
           THEN WordEnd(text, s, pattern) ELSE 0
  IN  IF e = 0 THEN NoMatch ELSE Span(s, MoreWords(text, e, pattern))

\* re.search(pattern, query): the leftmost match
re_search(pattern, text) ==
  LET hits == {p \in 1..Len(text) : MatchAt(text, p, pattern) # NoMatch}
  IN  IF hits = {} THEN NoMatch
      ELSE MatchAt(text, CHOOSE p \in hits : \A o \in hits : p <= o, pattern)

\* str.strip()
RECURSIVE Strip(_)
Strip(text) ==
  IF text = << >> THEN text
  ELSE IF Head(text) \in Whitespace THEN Strip(Tail(text))
  ELSE IF text[Len(text)] \in Whitespace
       THEN Strip(SubSeq(text, 1, Len(text) - 1))
  ELSE text

\* [" eller", " or", ","]
conjunctions == <<<<" ", "e", "l", "l", "e", "r">>, <<" ", "o", "r">>, <<",">>>>

\* if conjunction in location: location.split(conjunction)[0].strip()
SplitAt(location, conjunction) ==
  LET hits == {p \in 1..Len(location) : LiteralAt(location, p, conjunction)}
  IN  IF hits = {} THEN location
      ELSE Strip(SubSeq(location, 1,
                        (CHOOSE p \in hits : \A o \in hits : p <= o) - 1))

RECURSIVE TrimConjunctions(_, _)
TrimConjunctions(location, k) ==
  IF k > Len(conjunctions) THEN location
  ELSE TrimConjunctions(SplitAt(location, conjunctions[k]), k + 1)

exclude_words ==
  {<<"V", "i", "l", "k", "a">>,
   <<"V", "i", "s", "a">>,
   <<"F", "i", "n", "d">>,
   <<"S", "h", "o", "w">>,
   <<"W", "h", "i", "c", "h">>,
   <<"W", "h", "a", "t">>}

\* the function never returns the empty string: the empty text is None
None == << >>

\* what the body of the loop makes of the match of one pattern
Location(query, match) ==
  IF match = NoMatch THEN None
  ELSE TrimConjunctions(Strip(SubSeq(query, match.from, match.to)), 1)

\* if location and location not in exclude_words
Accepted(location) == location # None /\ location \notin exclude_words

\* for pattern in patterns: ... return location; return None
RECURSIVE ExtractFrom(_, _)
ExtractFrom(query, k) ==
  IF k > Len(patterns) THEN None
  ELSE LET location == Location(query, re_search(patterns[k], query))
       IN  IF Accepted(location) THEN location
           ELSE ExtractFrom(query, k + 1)

extract_location_from_query(query) == ExtractFrom(query, 1)

\* the words queries are made of: prepositions, conjunctions, place names
\* (Berlin, Park, Graenby with ae) and a command word
Words ==
  {<<"f", "r", "o", "m">>, <<"n", "e", "a", "r">>, <<"a", "t">>, <<"i">>,
   <<"o", "r">>, <<"e", "l", "l", "e", "r">>,
   <<"B", "e", "r", "l", "i", "n">>,
   <<"P", "a", "r", "k">>,
   <<"G", "r", "ae", "n", "b", "y">>,
   <<"F", "i", "n", "d">>}

\* the words separated by single spaces
RECURSIVE Join(_)
Join(words) ==
  IF words = << >> THEN << >>
  ELSE IF Len(words) = 1 THEN words[1]
  ELSE words[1] \o <<" ">> \o Join(Tail(words))

Queries == UNION {[1..n -> Words] : n \in 0..MaxWords}

ExtractInit ==
  /\ x_pc = "idle"
  /\ x_words = << >>
  /\ x_query = << >>
  /\ x_location = None

\* extract_location_from_query(message) is called and returns
ExtractCall ==
  /\ x_pc = "idle"
  /\ \E words \in Queries :
       /\ x_words' = words
       /\ x_query' = Join(words)
       /\ x_location' = extract_location_from_query(Join(words))
  /\ x_pc' = "returned"
  /\ UNCHANGED x_others

\* the turn goes on with the result; the next message can come
ExtractReturn ==
  /\ x_pc = "returned"
  /\ x_pc' = "idle"
  /\ x_words' = << >>
  /\ x_query' = << >>
  /\ x_location' = None
  /\ UNCHANGED x_others

ExtractNext ==
  \/ ExtractCall
  \/ ExtractReturn

\* ------------------------------------------------ calls of format_context
\* the records format_context can be given: a field is absent (Absent),
\* present and empty or zero (0), or present with a value (1)
ContextDocuments ==
  [document : {1}, name : {Absent, 0, 1}, address : {Absent, 1},
   capacity : {Absent, 0, 1}, district : {Absent, 1}]

ContextInit ==
  /\ c_pc = "idle"
  /\ c_documents = << >>
  /\ c_formatted = NoText

\* format_context is called with a list of records and returns
ContextCall ==
  /\ c_pc = "idle"
  /\ \E documents \in UNION {[1..n -> ContextDocuments] :
                               n \in 0..MaxContextDocs} :
       /\ c_documents' = documents
       /\ c_formatted' = format_context(documents)
  /\ c_pc' = "returned"
  /\ UNCHANGED c_others

\* the caller has used the result; the next call can come
ContextReturn ==
  /\ c_pc = "returned"
  /\ c_pc' = "idle"
  /\ c_documents' = << >>
  /\ c_formatted' = NoText
  /\ UNCHANGED c_others

ContextNext ==
  \/ ContextCall
  \/ ContextReturn

\* ------------------------------------------- calls of _calculate_distance
Points == Coord \X Coord

DistanceInit ==
  /\ d_pc = "idle"
  /\ d_a = <<0, 0>>
  /\ d_b = <<0, 0>>
  /\ d_aa = Absent
  /\ d_ab = Absent
  /\ d_ba = Absent

\* two points are chosen
DistanceCall ==
  /\ d_pc = "idle"
  /\ \E a \in Points, b \in Points :
       /\ d_a' = a
       /\ d_b' = b
  /\ d_pc' = "called"
  /\ UNCHANGED <<d_aa, d_ab, d_ba>>
  /\ UNCHANGED d_others

\* the function is applied to (a, a), (a, b) and (b, a)
DistanceCompute ==
  /\ d_pc = "called"
  /\ d_aa' = _calculate_distance(d_a[1], d_a[2], d_a[1], d_a[2])
  /\ d_ab' = _calculate_distance(d_a[1], d_a[2], d_b[1], d_b[2])
  /\ d_ba' = _calculate_distance(d_b[1], d_b[2], d_a[1], d_a[2])
  /\ d_pc' = "returned"
  /\ UNCHANGED <<d_a, d_b>>
  /\ UNCHANGED d_others

DistanceReturn ==
  /\ d_pc = "returned"
  /\ d_pc' = "idle"
  /\ d_a' = <<0, 0>>
  /\ d_b' = <<0, 0>>
  /\ d_aa' = Absent
  /\ d_ab' = Absent
  /\ d_ba' = Absent
  /\ UNCHANGED d_others

DistanceNext ==
  \/ DistanceCall
  \/ DistanceCompute
  \/ DistanceReturn

\* ------------------------------------------------- the scraper service
Clients == 1..NumTriggers

ScraperInit ==
  /\ s_status = "idle"
  /\ s_initial = "waiting"
  /\ s_scheduled = "idle"
  /\ s_trigger = [c \in Clients |-> "idle"]

\* the number of executions of scrape_and_process that are in progress
NumberInProgress ==
  (IF s_initial = "running" THEN 1 ELSE 0)
    + (IF s_scheduled = "running" THEN 1 ELSE 0)
    + Cardinality({c \in Clients : s_trigger[c] = "running"})

\* if scrape_status.status == "running": raise HTTPException(409)
Rejects(status) == status = "running"

\* startup_event: the scheduler is started, then scrape_and_process is
\* called and sets status = "running"
Startup ==
  /\ s_initial = "waiting"
  /\ s_initial' = "running"
  /\ s_status' = "running"
  /\ UNCHANGED <<s_scheduled, s_trigger>>
  /\ UNCHANGED s_others

\* the initial scrape ends: status is success, or error from the except
\* clause; the server starts to accept requests
StartupOver ==
  /\ s_initial = "running"
  /\ s_initial' = "over"
  /\ \E status \in {"success", "error"} : s_status' = status
  /\ UNCHANGED <<s_scheduled, s_trigger>>
  /\ UNCHANGED s_others

\* the cron trigger fires in the scheduler's thread: scrape_and_process is
\* called without a look at scrape_status
CronFires ==
  /\ s_initial # "waiting"
  /\ s_scheduled = "idle"
  /\ s_scheduled' = "running"
  /\ s_status' = "running"
  /\ UNCHANGED <<s_initial, s_trigger>>
  /\ UNCHANGED s_others

CronOver ==
  /\ s_scheduled = "running"
  /\ s_scheduled' = "idle"
  /\ \E status \in {"success", "error"} : s_status' = status
  /\ UNCHANGED <<s_initial, s_trigger>>
  /\ UNCHANGED s_others

\* POST /scrape/trigger: 409 while status is "running", else the task is
\* added to the background tasks and the response is "triggered"
trigger_scrape(c) ==
  /\ s_initial = "over"
  /\ s_trigger[c] = "idle"
  /\ s_trigger' = [s_trigger EXCEPT
                     ![c] = IF Rejects(s_status) THEN "rejected"
                            ELSE "accepted"]
  /\ UNCHANGED <<s_status, s_initial, s_scheduled>>
  /\ UNCHANGED s_others

\* the client has its 409
Rejected(c) ==
  /\ s_trigger[c] = "rejected"
  /\ s_trigger' = [s_trigger EXCEPT ![c] = "idle"]
  /\ UNCHANGED <<s_status, s_initial, s_scheduled>>
  /\ UNCHANGED s_others

\* after the response the background task runs scrape_and_process in a
\* worker thread: status = "running"
TaskStarts(c) ==
  /\ s_trigger[c] = "accepted"
  /\ s_trigger' = [s_trigger EXCEPT ![c] = "running"]
  /\ s_status' = "running"
  /\ UNCHANGED <<s_initial, s_scheduled>>
  /\ UNCHANGED s_others

TaskOver(c) ==
  /\ s_trigger[c] = "running"
  /\ s_trigger' = [s_trigger EXCEPT ![c] = "idle"]
  /\ \E status \in {"success", "error"} : s_status' = status
  /\ UNCHANGED <<s_initial, s_scheduled>>
  /\ UNCHANGED s_others

ScraperNext ==
  \/ Startup
  \/ StartupOver
  \/ CronFires
  \/ CronOver
  \/ \E c \in Clients : trigger_scrape(c)
  \/ \E c \in Clients : Rejected(c)
  \/ \E c \in Clients : TaskStarts(c)
  \/ \E c \in Clients : TaskOver(c)

\* ------------------------------------------------------ calls of _chunk_text
Chars == {"x", " ", "."}

Texts == UNION {[1..n -> Chars] : n \in 0..MaxTextLen}

\* a slice index as str.rfind and text[a:b] read it: a negative index
\* counts from the end, and the result is kept within 0..len
SliceIndex(i, n) ==
  IF i < 0 THEN (IF i + n < 0 THEN 0 ELSE i + n)
  ELSE Min(i, n)

\* text.rfind(sub, start, end): the highest index in the slice where sub
\* starts, or -1
rfind(text, sub, start, end) ==
  LET from == SliceIndex(start, Len(text))
      to == SliceIndex(end, Len(text))
      found == {i \in from..(to - Len(sub)) :
                  \A j \in 1..Len(sub) : text[i + j] = sub[j]}
  IN  IF found = {} THEN 0 - 1
      ELSE CHOOSE i \in found : \A m \in found : m <= i

\* text[start:end]
Slice(text, start, end) ==
  LET from == SliceIndex(start, Len(text))
      to == SliceIndex(end, Len(text))
  IN  IF from >= to THEN << >> ELSE SubSeq(text, from + 1, to)

\* the end of the chunk that begins at start
ChunkEnd(text, start, chunk_size) ==
  LET end == start + chunk_size
      sentence_end == rfind(text, <<".", " ">>, start, end)
      space == rfind(text, <<" ">>, start, end)
  IN  IF end < Len(text)
      THEN IF sentence_end > start THEN sentence_end + 1
           ELSE IF space > start THEN space
           ELSE end
      ELSE end

\* start = end - self.chunk_overlap if end < len(text) else end
NextStart(text, end, chunk_overlap) ==
  IF end < Len(text) THEN end - chunk_overlap ELSE end

ChunkInit ==
  /\ k_pc = "idle"
  /\ k_text = << >>
  /\ k_chunk_size = 1
  /\ k_chunk_overlap = 0
  /\ k_start = 0
  /\ k_chunks = << >>

\* _chunk_text(text) with 0 <= chunk_overlap < chunk_size; a text that fits
\* into one chunk is returned at once
ChunkCall ==
  /\ k_pc = "idle"
  /\ \E text \in Texts, size \in 1..MaxChunkSize :
       \E overlap \in 0..(size - 1) :
         /\ k_text' = text
         /\ k_chunk_size' = size
         /\ k_chunk_overlap' = overlap
         /\ IF Len(text) <= size
            THEN k_pc' = "returned" /\ k_chunks' = <<text>>
            ELSE k_pc' = "loop" /\ k_chunks' = << >>
  /\ k_start' = 0
  /\ UNCHANGED k_others

\* one iteration of while start < len(text)
ChunkStep ==
  /\ k_pc = "loop"
  /\ k_start < Len(k_text)
  /\ Len(k_chunks) < MaxIterations
  /\ LET end == ChunkEnd(k_text, k_start, k_chunk_size)
     IN  /\ k_chunks' = Append(k_chunks, Strip(Slice(k_text, k_start, end)))
         /\ k_start' = NextStart(k_text, end, k_chunk_overlap)
  /\ UNCHANGED <<k_pc, k_text, k_chunk_size, k_chunk_overlap>>
  /\ UNCHANGED k_others

\* the loop test fails: return chunks
ChunkExit ==
  /\ k_pc = "loop"
  /\ ~(k_start < Len(k_text))
  /\ k_pc' = "returned"
  /\ UNCHANGED <<k_text, k_chunk_size, k_chunk_overlap, k_start, k_chunks>>
  /\ UNCHANGED k_others

\* the caller has the chunks; the next call may start
ChunkReturn ==
  /\ k_pc = "returned"
  /\ k_pc' = "idle"
  /\ k_text' = << >>
  /\ k_chunk_size' = 1
  /\ k_chunk_overlap' = 0
  /\ k_start' = 0
  /\ k_chunks' = << >>
  /\ UNCHANGED k_others

ChunkNext ==
  \/ ChunkCall
  \/ ChunkStep
  \/ ChunkExit
  \/ ChunkReturn

Init ==
  /\ ScraperInit /\ ChunkInit
  /\ RetrieveInit /\ EngineInit /\ UiInit /\ ChatInit /\ TotalsInit /\ PullInit
  /\ HistoryInit /\ ExtractInit /\ ContextInit /\ DistanceInit

SpecRetrieve == Init /\ [][RetrieveNext]_vars

SpecStream == Init /\ [][StreamNext]_vars

SpecUI == Init /\ [][UiNext]_vars

SpecChat == Init /\ [][ChatNext]_vars

SpecTotals == Init /\ [][TotalsNext]_vars

SpecPull == Init /\ [][PullNext]_vars

SpecHistory == Init /\ [][HistoryNext]_vars

SpecExtract == Init /\ [][ExtractNext]_vars

SpecContext == Init /\ [][ContextNext]_vars

SpecDistance == Init /\ [][DistanceNext]_vars

SpecScraper == Init /\ [][ScraperNext]_vars

SpecChunk == Init /\ [][ChunkNext]_vars

\* ------------------------------------------------ claims on retrieve_context
\* the call went through the join (both responses arrived, ids not empty)
Completed == r_pc = "done" /\ r_failure = "none" /\ r_ids # << >>

ResultDocs == r_result.docs

ResultIds == {ResultDocs[k].id : k \in 1..Len(ResultDocs)}

\* position of a record in context_docs before filter and sort, which is
\* the similarity-rank order
CandIndex(d) == CHOOSE i \in 1..Len(r_candidates) : r_candidates[i].id = d.id

\* d comes strictly before e in (geo-distance, prior position) order
GeoBefore(d, e) ==
  \/ d.geo_distance < e.geo_distance
  \/ d.geo_distance = e.geo_distance /\ CandIndex(d) < CandIndex(e)

\* C3: every call of retrieve_context, whatever user_location carries,
\* returns at most max_docs records.
C3_AtMostMaxDocs == r_pc = "done" => Len(ResultDocs) <= r_max_docs

C8_NoLocationKeepsRank ==
  (Completed /\ ~Truthy(r_user_location)) =>
    /\ [k \in 1..Len(ResultDocs) |-> ResultDocs[k].id]
         = SelectSeq(r_ids, LAMBDA id : id \in r_fetched)
    /\ Len(ResultDocs) <= r_max_docs
    /\ \A k \in 1..Len(ResultDocs) : ResultDocs[k].geo_distance = Absent

\* C8 witness: an id in the middle of the ranking failed to join and the ids
\* around it came back in rank order, not in id order.
C8_Witness ==
  /\ Completed /\ ~Truthy(r_user_location)
  /\ Len(r_ids) = 2
  /\ Len(ResultDocs) = 1
  /\ r_ids[1] \notin r_fetched
  /\ r_ids[1] < r_ids[2]

\* C9: a failed embedding call, vector-store query or by-id lookup makes
\* retrieve_context return the empty list, nothing is ever raised to the
\* caller, and an empty id list gives the empty list too.
C9_FailureGivesEmpty ==
  /\ r_result.raised = FALSE
  /\ (r_pc = "done" /\ r_failure # "none") => r_result.docs = << >>
  /\ (r_pc = "done" /\ r_failure = "none" /\ r_ids = << >>) =>
       r_result.docs = << >>

\* C9 witness: the by-id lookup failed after the query had returned ids.
C9_Witness == r_pc = "done" /\ r_failure = "by_ids" /\ Len(r_ids) >= 2

\* a joined record whose coordinates are missing
LacksCoordinates(d) == d.lat = Absent \/ d.lng = Absent

FiniteBeforeInfinite ==
  \A k, l \in 1..Len(ResultDocs) :
    (k < l /\ ResultDocs[l].geo_distance < Inf) =>
      ResultDocs[k].geo_distance < Inf

Types(evs) == [i \in 1..Len(evs) |-> evs[i].type]

Positions(evs, types) == {i \in 1..Len(evs) : evs[i].type \in types}

\* the backend chunks that carry text, in generation order
NonEmptyTexts == SelectSeq(e_backend, LAMBDA t : t # "")

\* C1: the events of a /chat/stream turn have a context event before any
\* chunk event and exactly one terminal event, done or error, never both;
\* an error event is the last event.
C1_ContextFirstOneTerminal ==
  e_pc = "closed" =>
    /\ \A i \in Positions(sse, {"chunk"}) :
         \E j \in Positions(sse, {"context"}) : j < i
    /\ Cardinality(Positions(sse, {"done", "error"})) = 1
    /\ \A i \in Positions(sse, {"error"}) : i = Len(sse)

\* C2: when the backend stream ends normally without any chunk that carries
\* text, the turn's events are exactly context, error.
C2_EmptyStreamIsContextError ==
  (e_pc = "closed" /\ e_outcome = "ended" /\ NonEmptyTexts = << >>) =>
    Types(sse) = <<"context", "error">>

\* C5: when retrieval and generation complete without an exception and the
\* backend yields at least one chunk with text, the events are one context,
\* one chunk per chunk with text in generation order, one sources, one done.
C5_SuccessSequence ==
  (e_pc = "closed" /\ e_outcome = "ended" /\ NonEmptyTexts # << >>) =>
    /\ Len(sse) = Len(NonEmptyTexts) + 3
    /\ sse[1] = ContextEvent(e_context_docs)
    /\ \A i \in 1..Len(NonEmptyTexts) :
         sse[i + 1] = ChunkEvent(NonEmptyTexts[i])
    /\ sse[Len(sse) - 1].type = "sources"
    /\ sse[Len(sse)] = DoneEvent

\* C5 witness: a finished turn whose backend stream had a chunk without text
\* between two chunks with different texts.
C5_Witness ==
  /\ e_pc = "closed" /\ e_outcome = "ended"
  /\ e_backend = <<"b", "", "a">>
  /\ Len(e_context_docs) >= 2

BackendRaised == e_outcome \in {"raised_create", "empty_create", "raised_iter"}

\* C6: when the backend raises, at creation of the stream or during the
\* iteration, generate_response_stream yields exactly one error event and
\* nothing after it.
C6_OneErrorNothingAfter ==
  BackendRaised =>
    /\ Cardinality(Positions(events, {"error"})) = 1
    /\ events[Len(events)].type = "error"

\* C6 witness: the iteration raised after two chunks had been emitted.
C6_Witness ==
  /\ e_outcome = "raised_iter"
  /\ Cardinality(Positions(events, {"chunk"})) = 2
  /\ events[Len(events)].type = "error"

\* --------------------------------------------------- claims on the session
\* the turn has passed the geocoding step
PastGeocoding == u_pc \in {"post", "stream", "returned"}

\* the /chat/stream request of the turn is with the engine
RequestSent == u_pc \in {"stream", "returned"}

TurnFinished ==
  \/ u_pc = "returned"
  \/ u_pc = "stream" /\ e_pc = "closed" /\ u_read = Len(sse)

\* the strings the handler shows instead of generated content
ErrorStrings ==
  {ErrorText(m) : m \in {"exception", "empty", "error_message"}}

\* C11: once chat_with_llm_stream has finished a turn, the assistant message
\* of that turn is non-empty and is either the generated content or an
\* explicit error string, also when the stream carried no chunk event
C11_RenderableOutcome ==
  TurnFinished =>
    /\ u_assistant # NoText
    /\ u_assistant = NonEmptyTexts \/ u_assistant \in ErrorStrings

\* ------------------------------------------------- claims on prompt assembly
\* the template selected for the request names a placeholder that
\* generate_response does not supply
TemplateMismatch ==
  ~(SelectPrompt(g_language) \subseteq
      DOMAIN PromptArguments(g_context_docs, g_history))

\* C12: when the selected template references a placeholder the caller does
\* not supply, the error is raised to the caller of generate_response and is
\* not converted into a normal response value
C12_MismatchIsRaised ==
  (g_pc \in {"respond", "done"} /\ TemplateMismatch) =>
    /\ g_result.raised
    /\ g_pc = "done" => g_status = 500

\* ----------------------------------------- claims on geocoding inside a turn
\* Nominatim found nothing for the extracted place, or the request to it
\* failed with a transport or HTTP error
GeocodingFailed == u_resolved.answer \in {"empty", "transport", "http_error"}

\* C13: when geocoding of the extracted place returns zero results or fails
\* with a transport/HTTP error, the service yields none without raising and
\* the turn goes on: its stream request is built and processed with no
\* location context
C13_GeocodeFailureTolerated ==
  GeocodingFailed =>
    /\ ~u_resolved.result.raised
    /\ ~u_resolved.result.found
    /\ u_geocode = "failed"
    /\ u_pc # "geocode"
    /\ u_pc = "post" => PayloadLocation(u_user_location) = NoLocation
    /\ (RequestSent /\ e_pc # "idle") => e_user_location = NoLocation
    /\ \A i \in 1..Len(sse) :
         sse[i].type = "sources" =>
           \A k \in 1..Len(sse[i].sources) :
             sse[i].sources[k].geo_distance = Absent

\* an extracted place was not found, the stream request was sent without a
\* location and the whole stream, with sources, has been processed
C13_Witness ==
  /\ u_resolved.answer = "empty"
  /\ u_pc = "stream"
  /\ e_pc = "closed"
  /\ u_read = Len(sse)
  /\ e_user_location = NoLocation
  /\ \E i \in 1..Len(sse) : sse[i].type = "sources" /\ Len(sse[i].sources) > 0

\* ------------------------------------------- claims on the cached total count
\* C14: across any interleaving of concurrent turns, after the first
\* successful fetch no further stats request is issued and every
\* get_total_shelters call returns the value of that fetch
C14_FetchedOnceThenReused ==
  /\ ~t_late_request
  /\ \A c \in Turns :
       (t_pc[c] = "returned" /\ t_returned[c].after_first) =>
         t_returned[c].value = t_first

\* ------------------------------------------- claims on the pulled generator
\* the generator is suspended: every event asked for has been yielded
Suspended == Len(p_out) = p_asked

\* texts of the chunk events yielded so far
YieldedTexts ==
  LET chunks == SelectSeq(p_out, LAMBDA ev : ev.type = "chunk")
  IN  [k \in 1..Len(chunks) |-> chunks[k].text]

\* C15: the producer pulls the next backend chunk only after the consumer
\* has asked for the next event; when the consumer stops asking after some
\* chunk, no chunk beyond that one has been requested from the backend
C15_PullOnlyOnDemand ==
  /\ Len(p_out) <= p_asked
  /\ (Suspended /\ p_pc \in {"retrieve", "generate"}) => p_backend = << >>
  /\ (Suspended /\ p_pc = "iterate") =>
       /\ p_out # << >> /\ p_backend # << >>
       /\ p_out[Len(p_out)].type = "chunk"
       /\ p_out[Len(p_out)].text = p_backend[Len(p_backend)]
       /\ YieldedTexts = SelectSeq(p_backend, LAMBDA t : t # "")

\* the client went away after a chunk it had received; the backend had more
\* to give and was not asked
C15_Witness ==
  /\ ~p_connected
  /\ Suspended
  /\ p_pc = "iterate"
  /\ Len(p_backend) = 2
  /\ p_backend[1] = ""
  /\ Len(p_out) = 2

\* ------------------------------------------------- claims on format_history
\* positions of the messages of the call that are among its last 6 and are
\* rendered (user or assistant)
RenderedPositions ==
  {i \in 1..Len(h_messages) :
     /\ i > Len(h_messages) - 6
     /\ h_messages[i].role \in {"user", "assistant"}}

\* C16: format_history renders at most the last 6 of the supplied messages,
\* oldest first, and drops every earlier message, whatever the length of
\* the history
C16_LastSixOldestFirst ==
  h_messages # << >> =>
    /\ Len(h_formatted) <= 6
    /\ Len(h_formatted) = Cardinality(RenderedPositions)
    /\ \A k \in 1..Len(h_formatted) :
         /\ h_formatted[k].value \in RenderedPositions
         /\ h_formatted[k].label =
              IF h_messages[h_formatted[k].value].role = "user"
              THEN "Anvandare" ELSE "Assistent"
    /\ \A j, k \in 1..Len(h_formatted) :
         j < k => h_formatted[j].value < h_formatted[k].value

\* a history of seven user and assistant messages: the first is dropped, the
\* other six are rendered from the second on
C16_Witness ==
  /\ Len(h_messages) = 7
  /\ \A i \in 1..7 : h_messages[i].role \in {"user", "assistant"}
  /\ Len(h_formatted) = 6
  /\ h_formatted[1].value = 2
  /\ h_formatted[6].value = 7

\* ----------------------------------- claims on extract_location_from_query
\* pattern number k matches the query of the call
Matching(k) == re_search(patterns[k], x_query) # NoMatch

SomeMatching == \E k \in 1..Len(patterns) : Matching(k)

\* the first pattern in list order that matches
FirstMatching ==
  CHOOSE k \in 1..Len(patterns) :
    Matching(k) /\ \A j \in 1..(k - 1) : ~Matching(j)

\* the text pattern number k captures
Captured(k) == Location(x_query, re_search(patterns[k], x_query))

\* C17: extract_location_from_query returns none when no pattern matches the
\* query, and returns none when the text captured by the matching pattern is
\* one of the stoplist words
C17_NoneWithoutMatchOrOnStopword ==
  x_pc = "returned" =>
    /\ ~SomeMatching => x_location = None
    /\ (SomeMatching /\ Captured(FirstMatching) \in exclude_words) =>
         x_location = None

\* C18: the pattern list is a priority order: the result is the capture of
\* the first pattern in list order that matches the query (none when that
\* capture is a stoplist word), also when a later pattern matches another
\* span of the query
C18_FirstMatchingPatternWins ==
  (x_pc = "returned" /\ SomeMatching) =>
    x_location = IF Captured(FirstMatching) \in exclude_words THEN None
                 ELSE Captured(FirstMatching)

\* the words that are prepositions of the patterns, conjunctions, place names
Prepositions == {w \in Words : \E k \in 1..Len(patterns) :
                                 patterns[k].keyword = w}

ConjunctionWords == {<<"o", "r">>, <<"e", "l", "l", "e", "r">>}

PlaceNames == {<<"B", "e", "r", "l", "i", "n">>, <<"P", "a", "r", "k">>,
               <<"G", "r", "ae", "n", "b", "y">>}

\* the query is a preposition, the place X, a conjunction at word j, the
\* place Y
AlternativeAt(j) ==
  /\ j \in 3..(Len(x_words) - 1)
  /\ x_words[1] \in Prepositions
  /\ x_words[j] \in ConjunctionWords
  /\ \A k \in (2..Len(x_words)) \ {j} : x_words[k] \in PlaceNames

\* C19: for a query '<preposition> X or Y' / '<preposition> X eller Y' with
\* capitalized place names X and Y the result is X only
C19_FirstAlternativeOnly ==
  x_pc = "returned" =>
    \A j \in 1..Len(x_words) :
      AlternativeAt(j) => x_location = Join(SubSeq(x_words, 2, j - 1))

\* ------------------------------------------------- claims on format_context
\* the labels of the four metadata lines and the field each one shows
FieldOf(doc) ==
  [Namn |-> doc.name, Adress |-> doc.address, Kapacitet |-> doc.capacity,
   Stadsdel |-> doc.district]

FieldLabels == {"Namn", "Adress", "Kapacitet", "Stadsdel"}

\* the lines of the output that belong to record number i
BlockStart(i) ==
  CHOOSE p \in 1..Len(c_formatted) : c_formatted[p] = Line("Kalla", i)

BlockEnd(i) ==
  IF i < Len(c_documents) THEN BlockStart(i + 1) - 1 ELSE Len(c_formatted)

FieldLines(i, label) ==
  {p \in BlockStart(i)..BlockEnd(i) : c_formatted[p].label = label}

\* C20: format_context emits the name, address, capacity or district line of
\* a record only when the field is present in its metadata (and then with
\* the field's value); for an absent field there is no line, and no such
\* line shows None or an empty value
C20_FieldLineOnlyWhenPresent ==
  (c_pc = "returned" /\ c_documents # << >>) =>
    /\ \A p \in 1..Len(c_formatted) :
         c_formatted[p].label \in FieldLabels =>
           c_formatted[p].value \notin {Absent, 0}
    /\ \A i \in 1..Len(c_documents) : \A label \in FieldLabels :
         LET value == FieldOf(c_documents[i])[label]
         IN  /\ value = Absent => FieldLines(i, label) = {}
             /\ \A p \in FieldLines(i, label) :
                  value # Absent /\ c_formatted[p].value = value
             /\ PyTrue(value) => Cardinality(FieldLines(i, label)) = 1

\* two records: the first without a name, with an address and with capacity
\* 0, the second with every field; the first shows its address line only
C20_Witness ==
  /\ c_pc = "returned"
  /\ Len(c_documents) = 2
  /\ c_documents[1].name = Absent
  /\ c_documents[1].address = 1
  /\ c_documents[1].capacity = 0
  /\ c_documents[1].district = Absent
  /\ \A label \in FieldLabels : PyTrue(FieldOf(c_documents[2])[label])
  /\ BlockEnd(1) - BlockStart(1) = 3
  /\ c_formatted[BlockStart(1) + 2] = Line("Adress", 1)
  /\ Len(c_formatted) = 11

\* -------------------------------------------- claims on _calculate_distance
\* C21: the haversine distance is zero on identical points and symmetric:
\* _calculate_distance(p, p) = 0 and _calculate_distance(a, b) =
\* _calculate_distance(b, a) for all points.
C21_ZeroAndSymmetric ==
  d_pc = "returned" => d_aa = 0 /\ d_ab = d_ba

C21_Witness ==
  /\ d_pc = "returned"
  /\ d_a[2] # d_b[2]
  /\ d_a[1] # d_b[1]
  /\ d_ab > 0
  /\ d_ab = d_ba

\* ------------------------------------------ claims on the /query request
\* the /query request of the call has been sent
QuerySent == r_n_results # 0

\* a user_location was given: not None and not the empty mapping
LocationGiven ==
  \E key \in {"lat", "lng", "latitude", "longitude", "max_radius_km"} :
    r_user_location[key] # Absent

\* C22: retrieve_context asks the vector store for 2 * max_docs nearest
\* neighbours when a location is present and for exactly max_docs when it is
\* absent.
C22_HeadroomOnlyWithLocation ==
  /\ (r_pc \in {"query", "by_ids"}) => QuerySent
  /\ (QuerySent /\ LocationGiven) => r_n_results = 2 * r_max_docs
  /\ (QuerySent /\ ~LocationGiven) => r_n_results = r_max_docs
  /\ Len(r_ids) <= r_n_results

\* C22 witness: a call whose mapping carries only max_radius_km asked for
\* max_docs = 2 and the vector store answered 4 ids.
C22_Witness ==
  /\ r_pc = "by_ids"
  /\ LocationGiven
  /\ ~HasLocation(r_user_location)
  /\ r_max_docs = 2
  /\ r_n_results = 4
  /\ Len(r_ids) = 4

\* ---------------------------------------- claims on the geo-distance given
\* C23: with a resolved location every joined record whose coordinates_lat
\* and coordinates_lng are both present and numeric, 0 included, gets the
\* haversine distance from the resolved location, which is finite; only a
\* record with a missing or non-numeric coordinate gets +infinity.
C23_NumericGetsFiniteDistance ==
  (Completed /\ HasLocation(r_user_location)) =>
    \A i \in 1..Len(r_candidates) :
      LET d == r_candidates[i]
      IN  IF Numeric(d.lat) /\ Numeric(d.lng)
          THEN /\ d.geo_distance < Inf
               /\ d.geo_distance =
                    _calculate_distance(r_user_location.lat,
                                        r_user_location.lng, d.lat, d.lng)
          ELSE d.geo_distance = Inf

\* ------------------------------------ claims on the similarity distance
\* the distance the vector store reported for an id of its response
ReportedDistance(id) ==
  LET i == CHOOSE k \in 1..Len(r_ids) : r_ids[k] = id
  IN  QueryDistances(r_ids)[i]

\* C29: every record retrieve_context returns carries the similarity
\* distance the vector store reported for that record's own id, also when
\* ids earlier in the ranking failed to join and were dropped.
C29_DistanceOfOwnId ==
  Completed =>
    \A k \in 1..Len(ResultDocs) :
      /\ \E i \in 1..Len(r_ids) : r_ids[i] = ResultDocs[k].id
      /\ ResultDocs[k].distance = ReportedDistance(ResultDocs[k].id)

\* C29 witness: the first two ids of the ranking failed to join and the
\* third came back with the third distance, after the geographic sort moved
\* it in front of the fourth.
C29_Witness ==
  /\ Completed /\ HasLocation(r_user_location)
  /\ Len(r_ids) = 4
  /\ r_ids[1] \notin r_fetched
  /\ r_ids[2] \notin r_fetched
  /\ Len(ResultDocs) = 2
  /\ ResultDocs[1].id = r_ids[4]
  /\ ResultDocs[1].distance = 4
  /\ ResultDocs[2].id = r_ids[3]
  /\ ResultDocs[2].distance = 3

\* -------------------------------------------- claims on the sources event
SourcesPositions == Positions(events, {"sources"})

\* C24: the sources event of a turn is built from the retrieval result that
\* was used for the prompt: one entry per retrieved record in the same
\* order, as many entries as the count of the turn's context event, and an
\* entry carries geo_distance exactly when retrieval gave the record one.
C24_SourcesFromSameRetrieval ==
  \A i \in SourcesPositions :
    LET sources == events[i].sources
    IN  /\ Len(sources) = Len(e_context_docs)
        /\ events[1].type = "context"
        /\ Len(sources) = events[1].count
        /\ \A k \in 1..Len(sources) :
             /\ sources[k].id = e_context_docs[k].id
             /\ sources[k].score = e_context_docs[k].distance
             /\ sources[k].geo_distance = e_context_docs[k].geo_distance

\* C24 witness: the sources of a turn with a location list a record with a
\* finite geo-distance and after it one whose geo-distance is +infinity.
C24_Witness ==
  /\ e_outcome = "ended"
  /\ \E i \in SourcesPositions :
       /\ Len(events[i].sources) = 2
       /\ events[i].sources[1].geo_distance # Absent
       /\ events[i].sources[1].geo_distance < Inf
       /\ events[i].sources[2].geo_distance = Inf

\* --------------------------------------------- claims on the location note
\* the prompt of the turn has been built with the location note in it
NoteAppended ==
  /\ e_pc \in {"generate", "iterate", "finished", "closed"}
  /\ LocationNote(e_user_location)

\* context_docs came out of the geographic branch: every record has a
\* geo-distance, they ascend, and there are at most max_docs of them
Reranked ==
  /\ \A k \in 1..Len(e_context_docs) :
       e_context_docs[k].geo_distance # Absent
  /\ \A k, l \in 1..Len(e_context_docs) :
       k < l => GeoKey(e_context_docs[k]) <= GeoKey(e_context_docs[l])
  /\ Len(e_context_docs) <= e_max_docs

\* C25: whenever generate_response_stream appends the location note, which
\* says the context is sorted by distance from the user's location,
\* retrieve_context has applied the geographic re-ranking in that turn.
C25_NoteOnlyAfterRerank ==
  NoteAppended => HasLocation(e_user_location) /\ Reranked

\* ------------------------------------------ claims on a failed stats fetch
\* a call that had gone on to the stats request returns in this step
FetchReturns(c) ==
  /\ t_pc[c] \in {"connecting", "waiting"}
  /\ t_pc'[c] = "returned"

\* ... with the count of a response that arrived
FetchSucceeds(c) ==
  /\ t_pc[c] = "waiting"
  /\ t_total_shelters' = t_store_count
  /\ t_returned'[c].value = t_store_count

\* ... with 0 and the cache as it was
FetchFails(c) ==
  /\ t_total_shelters' = t_total_shelters
  /\ t_returned'[c].value = 0

FailureLeavesCache ==
  /\ \A c \in Turns : FetchReturns(c) => FetchSucceeds(c) \/ FetchFails(c)
  /\ t_total_shelters' # t_total_shelters =>
       \E c \in Turns : FetchReturns(c) /\ FetchSucceeds(c)
  /\ \A c \in Turns :
       (t_pc[c] = "idle" /\ t_pc'[c] # "idle" /\ t_total_shelters = Absent) =>
         t_pc'[c] = "connecting"

\* C28: a failed stats fetch is never cached: a failing get_total_shelters
\* returns 0 and leaves the cache as it was, so while no fetch has succeeded
\* the cache stays unset and the next call issues a new request; the cache
\* is only ever set from a successful response.
C28_FailureNeverCached ==
  /\ [](t_total_shelters # Absent => t_first # Absent)
  /\ [][FailureLeavesCache]_vars

\* C28 witness: a turn whose call returned 0 while nothing was cached has
\* called again and is issuing a new request.
C28_Witness ==
  /\ t_pc[1] = "connecting"
  /\ t_returned[1] = Return(0, FALSE)
  /\ t_total_shelters = Absent
  /\ t_store_count = 2

\* ------------------------------------ claims on the handling of the stream
\* the events of the stream the handler has processed, in arrival order
Processed ==
  IF u_pc \in {"stream", "returned"} THEN SubSeq(sse, 1, u_read) ELSE << >>

ErrorProcessed == Positions(Processed, {"error"}) # {}

\* the texts of the processed chunk events, in arrival order
ChunksProcessed ==
  LET chunks == SelectSeq(Processed, LAMBDA ev : ev.type = "chunk")
  IN  [k \in 1..Len(chunks) |-> chunks[k].text]

\* an error event is the last event the handler processes, and its message
\* is then the assistant message
ErrorEndsProcessing ==
  \A i \in Positions(Processed, {"error"}) :
    /\ i = u_read
    /\ u_pc = "returned"
    /\ u_assistant = ErrorText(sse[i].text)

\* the handler ended in its except clause, not on an event
ReadingFailed == u_pc = "returned" /\ ~ErrorProcessed

\* C30 as stated: after an error event no further event of the stream is
\* processed and the final assistant message is exactly the error message,
\* replacing the text of earlier chunks; without an error event the final
\* assistant message is the concatenation of all chunk texts in arrival
\* order.
C30_ErrorElseAllChunks ==
  /\ ErrorEndsProcessing
  /\ (TurnFinished /\ ~ErrorProcessed) => u_assistant = ChunksProcessed

\* C30 amended: as above for the error event; without an error event the
\* final assistant message is the concatenation of the chunk texts when the
\* stream was read to its end, and the handler's own error text when
\* reading the stream failed.
C30_ErrorElseChunksOrFailureText ==
  /\ ErrorEndsProcessing
  /\ (TurnFinished /\ ~ErrorProcessed /\ ~ReadingFailed) =>
       u_assistant = ChunksProcessed
  /\ ReadingFailed => u_assistant = ErrorText("error_message")
  /\ (u_pc = "stream" /\ ~ErrorProcessed) => u_assistant = ChunksProcessed

\* C30 witness: an error event arrived after two chunks with different
\* texts, its message replaced them, and the done event sent after it was
\* left unprocessed.
C30_Witness ==
  /\ u_pc = "returned"
  /\ u_read = 4
  /\ Types(Processed) = <<"context", "chunk", "chunk", "error">>
  /\ sse[2].text # sse[3].text
  /\ u_assistant = ErrorText("exception")
  /\ Len(sse) = 5
  /\ sse[5].type = "done"

\* ---------------------------------------------- claims on the scraper
\* a trigger is accepted in this step
Accepted_Trigger(c) == s_trigger[c] = "idle" /\ s_trigger'[c] = "accepted"

\* C26: at most one scrape_and_process runs at any time: under any
\* interleaving of /scrape/trigger requests and the scheduled job, a trigger
\* that arrives while a scrape is in progress is rejected and no second
\* concurrent scrape is ever started.
C26_AtMostOneScrape ==
  /\ [](NumberInProgress <= 1)
  /\ [][\A c \in Clients : Accepted_Trigger(c) => NumberInProgress = 0]_vars

\* ------------------------------------------------- claims on _chunk_text
\* C27: _chunk_text terminates for every text and every configuration with
\* 0 <= chunk_overlap < chunk_size: each iteration of the loop advances the
\* start position, also when the chunk end was moved back to a sentence or
\* word boundary.
C27_EveryIterationAdvances ==
  [][(k_pc = "loop" /\ k_pc' = "loop") => k_start' > k_start]_vars

====
